---- MODULE Spec2Model ----
(***************************************************************************)
(* A model of the mlog logging pipeline (package mlog):                    *)
(*   - the level gate: atomicLevel, the four global fast-path flags and    *)
(*     the per-pipeline LevelCache;                                        *)
(*   - the life cycle: InitialZap, Close, UpdateLevel;                     *)
(*   - the facade: Debug / Info / Warn / Error and the XW fallbacks;       *)
(*   - the asynchronous pipeline: logChan, done, the worker goroutine.     *)
(*   - the routes: ZapCore.Write, createWriteSyncer, the lumberjack        *)
(*     loggers of the cores and their cache, ZapCore.Close, initZap;       *)
(*   - the time of a record on the two write paths of the worker;          *)
(*   - formatting: SafeFormatter, formatMessage, the safety mode.          *)
(* Application threads call the public operations; every operation is cut  *)
(* into steps at the points where the code reads or writes shared state    *)
(* (atomics, mutexes, channels), so that all interleavings are explored.   *)
(***************************************************************************)
EXTENDS Integers, Sequences, FiniteSets, TLC

(***************************************************************************)
(* Bounds of the model.                                                    *)
(***************************************************************************)
\* total number of public operations the application threads start
MaxOps == 3
\* number of InitialZap calls (each may create one AsyncLogger)
MaxInits == 2
\* largest AsyncBufferSize that InitialZap is called with
MaxBufferSize == 2

\* calls of ExitGame on one call chain that are counted
MaxExits == 2

Threads == {"t1", "t2"}
NoThread == "none"
Gens == 1..MaxInits
NoLogger == 0

(***************************************************************************)
(* zapcore levels.                                                         *)
(***************************************************************************)
DebugLevel == -1
InfoLevel == 0
WarnLevel == 1
ErrorLevel == 2
FatalLevel == ErrorLevel + 3

\* ZapConfig.Levels(): every level from Debug up to Fatal
Levels == DebugLevel..FatalLevel

\* the levels the modelled entry points log at (Debug(), Warn())
LogLevels == {DebugLevel, WarnLevel}

\* level names handed to InitialZap and UpdateLevel; "bogus" does not parse
LevelInputs == {"debug", "error", "bogus"}

\* zapcore.ParseLevel: err == nil
ParseOK(name) == name \in {"debug", "info", "warn", "error", "WARN"}

\* zapcore.ParseLevel: the level of a name that parses
ParseLevel(name) ==
    CASE name = "debug" -> DebugLevel
      [] name = "info"  -> InfoLevel
      [] name = "warn"  -> WarnLevel
      [] name = "error" -> ErrorLevel
      [] name = "WARN"  -> WarnLevel

\* bufferSize of InitialZap: the default applies to a size <= 0
DefaultBufferSize == 10000
BufferSize(n) == IF n <= 0 THEN DefaultBufferSize ELSE n

\* the ZapConfig values InitialZap is called with (together with logLevel)
Configs ==
    { c \in [async : BOOLEAN, drop : BOOLEAN, size : 1..MaxBufferSize,
             level : LevelInputs] : (~c.async) => (~c.drop /\ c.size = 1) }

VARIABLES
    atomicLevel,        \* <<>>: zero value (nil pointer); <<l>>: holds level l
    debugEnabledCache, infoEnabledCache, warnEnabledCache, errorEnabledCache,
    initialized,        \* 0 or 1
    loggerPtr,          \* 0: nil; n > 0: the logger built by the n-th initZap
    zapCores,           \* levels of the ZapCores of the current logger
    globalMutex,        \* thread holding globalMutex, or NoThread
    asyncMutex,         \* thread holding asyncMutex for writing, or NoThread
    globalAsyncLogger,  \* NoLogger (nil) or the generation of the AsyncLogger
    logChan,            \* per AsyncLogger: the buffered channel
    chanCap,            \* per AsyncLogger: cap(logChan)
    done,               \* per AsyncLogger: done channel is closed
    dropOnFull,         \* per AsyncLogger
    levelCache,         \* per AsyncLogger: the LevelCache flags
    wpc,                \* per AsyncLogger: position of processLogs
    wcur,               \* per AsyncLogger: the entry being processed
    th,                 \* per thread: position and locals of its operation
    ops,                \* operations started so far
    inits,              \* InitialZap calls started so far
    fault,              \* "none", or the panic that ended the process
    sink,               \* records written to the sinks, in order
    accepted,           \* per AsyncLogger: ids sent into logChan, in order
    processed,          \* per AsyncLogger: ids given to processLogEntry
    handed,             \* ids given to ZapCore.Check
    dropped,            \* ids discarded at a full queue
    singleFile,         \* zapConfig.SingleFile
    sinks,              \* the lumberjack loggers constructed so far, in order
    coreSink,           \* per ZapCore: the sink its embedded Core writes to
    lumberjackLogger,   \* per ZapCore: z.lumberjackLogger (0: nil)
    specialLoggers,     \* per ZapCore: cache key -> sink
    routed,             \* the records handed to an encoder and a sink
    globalSafetyMode,   \* config.go: the LogSafetyMode in force
    fmtIn,              \* the inputs of a formatting call
    fmtOut,             \* what the formatting call gave
    now,                \* the wall clock, time.Now()
    stamped,            \* the records the worker wrote, with their Time
    failed,             \* ids of the entries whose write returned an error
    stopFlag,           \* the int32 stopFlag
    skipCache,          \* per AsyncLogger: OptimizedSkipCache.cache, pc -> skip
    skipSize,           \* per AsyncLogger: OptimizedSkipCache.size
    skipped,            \* the skip depths the async calls were given
    levelByName,        \* zap.go: the map levelCache, level name -> Level
    checked             \* what the last CheckLevel call returned

vars == << atomicLevel, debugEnabledCache, infoEnabledCache, warnEnabledCache,
           errorEnabledCache, initialized, loggerPtr, zapCores, globalMutex,
           asyncMutex, globalAsyncLogger, logChan, chanCap, done, dropOnFull,
           levelCache, wpc, wcur, th, ops, inits, fault, sink, accepted,
           processed, handed, dropped, singleFile, sinks, coreSink,
           lumberjackLogger, specialLoggers, routed, globalSafetyMode,
           fmtIn, fmtOut, now, stamped, failed, stopFlag, skipCache,
           skipSize, skipped, levelByName, checked >>

levelVars == << atomicLevel, debugEnabledCache, infoEnabledCache,
                warnEnabledCache, errorEnabledCache >>
flagVars == << debugEnabledCache, infoEnabledCache, warnEnabledCache,
               errorEnabledCache >>
loggerVars == << initialized, loggerPtr, zapCores >>
lockVars == << globalMutex, asyncMutex >>
asyncVars == << globalAsyncLogger, logChan, chanCap, done, dropOnFull,
                levelCache, wpc, wcur >>
histVars == << sink, accepted, processed, handed, dropped >>
routeVars == << singleFile, sinks, coreSink, lumberjackLogger, specialLoggers,
               routed >>
formatVars == << globalSafetyMode, fmtIn, fmtOut >>
timeVars == << now, stamped >>
checkVars == << levelByName, checked >>
extraVars == << stopFlag, skipCache, skipSize, skipped, checkVars >>

\* an AsyncLogEntry, by the id of the call that made it and its Level
NoEntry == [id |-> 0, lvl |-> 0]
\* the worker's entry, with what ZapCore.Check said of it
NoWork == [id |-> 0, lvl |-> 0, thr |-> 0, cores |-> {}]
NoConfig == [async |-> FALSE, drop |-> FALSE, size |-> 1, level |-> "debug"]

\* a thread that runs no operation
IdleThread ==
    [pc |-> "idle", e |-> NoEntry, ref |-> NoLogger, name |-> "",
     cfg |-> NoConfig, cur |-> 0, thr |-> 0, cores |-> {}, after |-> "ret",
     snap |-> {}, dir |-> << >>, exits |-> 0, args |-> TRUE]

\* NewLevelCache before updateCache: every level enabled
DefaultLevelCache ==
    [debugEnabled |-> 1, infoEnabled |-> 1, warnEnabled |-> 1, errorEnabled |-> 1]

\* no lumberjack logger has been constructed (the sinks are followed in
\* SpecRoute; the other specifications write to one abstract sink)
NoRoutes ==
    /\ singleFile = FALSE
    /\ sinks = << >>
    /\ coreSink = [z \in Levels |-> 0]
    /\ lumberjackLogger = [z \in Levels |-> 0]
    /\ specialLoggers = [z \in Levels |-> << >>]
    /\ routed = {}

\* no formatting call is followed (they are followed in SpecFormat)
SafetyModeDefault == 0
SafetyModeAlways == 1
SafetyModeNever == 2

\* no formatting call has been made
NoCall ==
    [op |-> "none", msg |-> << >>, args |-> << >>, isAsync |-> FALSE, mode |-> 0,
     clash |-> FALSE]
NoResult == [via |-> "none", out |-> << >>, fault |-> "none", use |-> FALSE]

NoFormat ==
    /\ globalSafetyMode = SafetyModeDefault
    /\ fmtIn = NoCall
    /\ fmtOut = NoResult

NoTime ==
    /\ now = 0
    /\ stamped = {}
    /\ failed = {}

\* the skip caches followed: the one newAsyncLogger makes for the async logger
\* and one a caller makes with NewOptimizedSkipCache
Caches == {"logger", "own"}

\* the stop flag is clear, the skip caches are empty
\* no CheckLevel call has returned
NoCheck == [name |-> "", ok |-> FALSE]

\* the map levelCache as it is declared: the lower-case names and their levels
DeclaredLevels ==
    [name \in {"debug", "info", "warn", "error"} |-> ParseLevel(name)]

NoExtras ==
    /\ stopFlag = 0
    /\ skipCache = [c \in Caches |-> << >>]
    /\ skipSize = [c \in Caches |-> 0]
    /\ skipped = {}
    /\ levelByName = DeclaredLevels
    /\ checked = NoCheck

Init ==
    /\ atomicLevel = << >>
    /\ debugEnabledCache = 0
    /\ infoEnabledCache = 0
    /\ warnEnabledCache = 0
    /\ errorEnabledCache = 0
    /\ initialized = 0
    /\ loggerPtr = 0
    /\ zapCores = {}
    /\ globalMutex = NoThread
    /\ asyncMutex = NoThread
    /\ globalAsyncLogger = NoLogger
    /\ logChan = [g \in Gens |-> << >>]
    /\ chanCap = [g \in Gens |-> 0]
    /\ done = [g \in Gens |-> FALSE]
    /\ dropOnFull = [g \in Gens |-> FALSE]
    /\ levelCache = [g \in Gens |-> DefaultLevelCache]
    /\ wpc = [g \in Gens |-> "none"]
    /\ wcur = [g \in Gens |-> NoWork]
    /\ th = [t \in Threads |-> IdleThread]
    /\ ops = 0
    /\ inits = 0
    /\ fault = "none"
    /\ sink = << >>
    /\ accepted = [g \in Gens |-> << >>]
    /\ processed = [g \in Gens |-> << >>]
    /\ handed = {}
    /\ dropped = {}
    /\ NoRoutes
    /\ NoFormat
    /\ NoTime
    /\ NoExtras

(***************************************************************************)
(* The level gate.                                                         *)
(***************************************************************************)
boolToInt32(b) == IF b THEN 1 ELSE 0

\* atomicLevel.Level() of an allocated AtomicLevel
Level == atomicLevel[1]

\* a core that takes every entry of its own level, whatever the threshold
EnabledAnyThreshold(z, level) == z = level

\* a core that takes the entries of its own level and of every level above
EnabledAtOrAbove(z, level) == level >= z /\ level >= Level

\* ZapCore.Enabled of the core whose level is z
Enabled(z, level) == z = level /\ level >= Level

\* ZapCore.Check through the tee of all cores: the cores that take the entry
Check(level) == { z \in zapCores : Enabled(z, level) }

\* getLoggerOptimized() != nil
getLogger == initialized = 1 /\ loggerPtr # 0

\* isDebugEnabledFast .. isErrorEnabledFast, by level
isEnabledFast(level) ==
    CASE level = DebugLevel -> debugEnabledCache = 1
      [] level = InfoLevel  -> infoEnabledCache = 1
      [] level = WarnLevel  -> warnEnabledCache = 1
      [] level = ErrorLevel -> errorEnabledCache = 1

\* updateLevelCacheOptimized(currentLevel)
updateLevelCacheOptimized(currentLevel) ==
    /\ debugEnabledCache' = boolToInt32(currentLevel <= DebugLevel)
    /\ infoEnabledCache' = boolToInt32(currentLevel <= InfoLevel)
    /\ warnEnabledCache' = boolToInt32(currentLevel <= WarnLevel)
    /\ errorEnabledCache' = boolToInt32(currentLevel <= ErrorLevel)

\* the four flags as updateLevelCacheOptimized(currentLevel) leaves them
FlagsAre(currentLevel) ==
    /\ debugEnabledCache = boolToInt32(currentLevel <= DebugLevel)
    /\ infoEnabledCache = boolToInt32(currentLevel <= InfoLevel)
    /\ warnEnabledCache = boolToInt32(currentLevel <= WarnLevel)
    /\ errorEnabledCache = boolToInt32(currentLevel <= ErrorLevel)

\* LevelCache.isLevelEnabled for the four cached levels
isLevelEnabled(lc, level) ==
    CASE level = DebugLevel -> lc.debugEnabled = 1
      [] level = InfoLevel  -> lc.infoEnabled = 1
      [] level = WarnLevel  -> lc.warnEnabled = 1
      [] level = ErrorLevel -> lc.errorEnabled = 1

(***************************************************************************)
(* Helpers of the steps.                                                   *)
(***************************************************************************)
Range(s) == { s[i] : i \in DOMAIN s }

\* a thread leaves its operation
Return(t) == th' = [th EXCEPT ![t] = IdleThread]

\* a thread moves on inside its operation
Goto(t, pc) == th' = [th EXCEPT ![t].pc = pc]

\* a panic that nothing recovers ends the process
Panic(what) == fault' = what

\* the process is running and thread t is at pc
At(t, pc) == fault = "none" /\ th[t].pc = pc

\* one more call of ExitGame on the call chain (counted up to MaxExits)
CountExit(n) == IF n < MaxExits THEN n + 1 ELSE n

\* a thread may start another public operation
CanStart(t) == At(t, "idle") /\ ops < MaxOps

\* LevelCache.updateCache, on the flags NewLevelCache has set
updateCache(lc) ==
    IF getLogger
    THEN [debugEnabled |-> boolToInt32(Check(DebugLevel) # {}),
          infoEnabled  |-> boolToInt32(Check(InfoLevel) # {}),
          warnEnabled  |-> boolToInt32(Check(WarnLevel) # {}),
          errorEnabled |-> boolToInt32(Check(ErrorLevel) # {})]
    ELSE lc

\* the generation the next newAsyncLogger gets
NextGen == Cardinality({ g \in Gens : wpc[g] # "none" }) + 1

\* newAsyncLogger(bufferSize, dropOnFull), published in globalAsyncLogger
newAsyncLogger(size, drop) ==
    LET g == NextGen IN
    /\ logChan' = [logChan EXCEPT ![g] = << >>]
    /\ chanCap' = [chanCap EXCEPT ![g] = size]
    /\ dropOnFull' = [dropOnFull EXCEPT ![g] = drop]
    /\ levelCache' = [levelCache EXCEPT ![g] = updateCache(DefaultLevelCache)]
    /\ wpc' = [wpc EXCEPT ![g] = "select"]
    /\ globalAsyncLogger' = g

(***************************************************************************)
(* InitialZap(name, id, logLevel, zc).                                     *)
(***************************************************************************)
\* globalMutex.Lock(); zapConfig = zc; atomicLevel = NewAtomicLevelAt(level)
InitialZap(t, c) ==
    /\ CanStart(t)
    /\ inits < MaxInits
    /\ globalMutex = NoThread
    /\ globalMutex' = t
    /\ atomicLevel' = << IF ParseOK(c.level) THEN ParseLevel(c.level) ELSE InfoLevel >>
    /\ th' = [th EXCEPT ![t] = [IdleThread EXCEPT !.pc = "iz_read", !.cfg = c]]
    /\ ops' = ops + 1
    /\ inits' = inits + 1
    /\ UNCHANGED << flagVars, loggerVars, asyncMutex, asyncVars, fault, histVars >>
    /\ UNCHANGED << routeVars, formatVars, timeVars, failed >>
    /\ UNCHANGED extraVars

\* the argument of updateLevelCacheOptimized(atomicLevel.Level())
InitialZapReadLevel(t) ==
    /\ At(t, "iz_read")
    /\ th' = [th EXCEPT ![t].pc = "iz_store", ![t].cur = Level]
    /\ UNCHANGED << levelVars, loggerVars, lockVars, asyncVars, ops, inits, fault,
                    histVars >>
    /\ UNCHANGED << routeVars, formatVars, timeVars, failed >>
    /\ UNCHANGED extraVars

\* updateLevelCacheOptimized; logger := initZap(..); StorePointer(&loggerPtr, ..)
InitialZapLogger(t) ==
    /\ At(t, "iz_store")
    /\ updateLevelCacheOptimized(th[t].cur)
    /\ zapCores' = Levels
    /\ loggerPtr' = inits
    /\ Goto(t, IF th[t].cfg.async THEN "iz_async" ELSE "iz_fin")
    /\ UNCHANGED << atomicLevel, initialized, lockVars, asyncVars, ops, inits,
                    fault, histVars >>
    /\ UNCHANGED << routeVars, formatVars, timeVars, failed >>
    /\ UNCHANGED extraVars

\* asyncMutex.Lock(); the existing async logger is closed, or a new one made
InitialZapAsync(t) ==
    /\ At(t, "iz_async")
    /\ asyncMutex = NoThread
    /\ IF globalAsyncLogger # NoLogger
       THEN /\ asyncMutex' = t
            /\ IF done[globalAsyncLogger]
               THEN Panic("close of closed channel") /\ UNCHANGED done
               ELSE /\ done' = [done EXCEPT ![globalAsyncLogger] = TRUE]
                    /\ UNCHANGED fault
            /\ Goto(t, "iz_wait")
            /\ UNCHANGED << globalAsyncLogger, logChan, chanCap, dropOnFull,
                            levelCache, wpc >>
       ELSE /\ newAsyncLogger(BufferSize(th[t].cfg.size), th[t].cfg.drop)
            /\ Goto(t, "iz_fin")
            /\ UNCHANGED << asyncMutex, done, fault >>
    /\ UNCHANGED << levelVars, loggerVars, globalMutex, wcur, ops, inits, histVars >>
    /\ UNCHANGED << routeVars, formatVars, timeVars, failed >>
    /\ UNCHANGED extraVars

InitialZapReplaceNoWait(t) ==
    /\ At(t, "iz_wait")
    /\ newAsyncLogger(BufferSize(th[t].cfg.size), th[t].cfg.drop)
    /\ asyncMutex' = NoThread
    /\ Goto(t, "iz_fin")
    /\ UNCHANGED << levelVars, loggerVars, globalMutex, done, wcur, ops, inits,
                    fault, histVars >>
    /\ UNCHANGED << routeVars, formatVars, timeVars, failed >>
    /\ UNCHANGED extraVars

\* al.wg.Wait() of the old logger returns; newAsyncLogger; asyncMutex.Unlock()
InitialZapReplace(t) ==
    /\ At(t, "iz_wait")
    /\ wpc[globalAsyncLogger] = "exited"
    /\ newAsyncLogger(BufferSize(th[t].cfg.size), th[t].cfg.drop)
    /\ asyncMutex' = NoThread
    /\ Goto(t, "iz_fin")
    /\ UNCHANGED << levelVars, loggerVars, globalMutex, done, wcur, ops, inits,
                    fault, histVars >>
    /\ UNCHANGED << routeVars, formatVars, timeVars, failed >>
    /\ UNCHANGED extraVars

\* atomic.StoreInt32(&initialized, 1); globalMutex.Unlock()
InitialZapDone(t) ==
    /\ At(t, "iz_fin")
    /\ initialized' = 1
    /\ globalMutex' = NoThread
    /\ Return(t)
    /\ UNCHANGED << levelVars, loggerPtr, zapCores, asyncMutex, asyncVars, ops,
                    inits, fault, histVars >>
    /\ UNCHANGED << routeVars, formatVars, timeVars, failed >>
    /\ UNCHANGED extraVars

(***************************************************************************)
(* Close().                                                                *)
(***************************************************************************)
\* asyncMutex.Lock(); globalAsyncLogger.close() closes done
Close(t) ==
    /\ CanStart(t)
    /\ asyncMutex = NoThread
    /\ ops' = ops + 1
    /\ IF globalAsyncLogger # NoLogger
       THEN /\ asyncMutex' = t
            /\ IF done[globalAsyncLogger]
               THEN Panic("close of closed channel") /\ UNCHANGED done
               ELSE /\ done' = [done EXCEPT ![globalAsyncLogger] = TRUE]
                    /\ UNCHANGED fault
            /\ th' = [th EXCEPT ![t] = [IdleThread EXCEPT
                        !.pc = "cl_wait", !.ref = globalAsyncLogger,
                        !.snap = Range(accepted[globalAsyncLogger])]]
       ELSE /\ th' = [th EXCEPT ![t] = [IdleThread EXCEPT !.pc = "cl_ptr"]]
            /\ UNCHANGED << asyncMutex, done, fault >>
    /\ UNCHANGED << levelVars, loggerVars, globalMutex, globalAsyncLogger, logChan,
                    chanCap, dropOnFull, levelCache, wpc, wcur, inits, histVars >>
    /\ UNCHANGED << routeVars, formatVars, timeVars, failed >>
    /\ UNCHANGED extraVars

\* al.wg.Wait() returns; globalAsyncLogger = nil; asyncMutex.Unlock()
CloseWaited(t) ==
    /\ At(t, "cl_wait")
    /\ wpc[th[t].ref] = "exited"
    /\ globalAsyncLogger' = NoLogger
    /\ asyncMutex' = NoThread
    /\ Goto(t, "cl_ptr")
    /\ UNCHANGED << levelVars, loggerVars, globalMutex, logChan, chanCap, done,
                    dropOnFull, levelCache, wpc, wcur, ops, inits, fault, histVars >>
    /\ UNCHANGED << routeVars, formatVars, timeVars, failed >>
    /\ UNCHANGED extraVars

\* syncLoggerSafely(getLoggerOptimized()); atomic.StorePointer(&loggerPtr, nil)
CloseLogger(t) ==
    /\ At(t, "cl_ptr")
    /\ loggerPtr' = 0
    /\ Goto(t, "cl_init")
    /\ UNCHANGED << levelVars, initialized, zapCores, lockVars, asyncVars, ops,
                    inits, fault, histVars >>
    /\ UNCHANGED << routeVars, formatVars, timeVars, failed >>
    /\ UNCHANGED extraVars

\* atomic.StoreInt32(&initialized, 0)
CloseDone(t) ==
    /\ At(t, "cl_init")
    /\ initialized' = 0
    /\ Return(t)
    /\ UNCHANGED << levelVars, loggerPtr, zapCores, lockVars, asyncVars, ops,
                    inits, fault, histVars >>
    /\ UNCHANGED << routeVars, formatVars, timeVars, failed >>
    /\ UNCHANGED extraVars

(***************************************************************************)
(* Writing through the logger: logger.Debug(..) etc. call Check on the tee *)
(* of the cores and then Write on the cores that took the entry.            *)
(***************************************************************************)
\* the record a sink receives
Record(e, thr, cores, by) ==
    [id |-> e.id, lvl |-> e.lvl, thr |-> thr, cores |-> cores, by |-> by]

\* CheckedEntry.Write on the calling thread; then the caller goes on
Write(t) ==
    /\ At(t, "write")
    /\ sink' = Append(sink, Record(th[t].e, th[t].thr, th[t].cores,
                                   IF th[t].args THEN "caller" ELSE "XW"))
    /\ IF th[t].after = "ret"
       THEN Return(t) /\ UNCHANGED fault
       ELSE IF th[t].after = "panic"
            THEN Panic("ExitGame") /\ UNCHANGED th
            ELSE Goto(t, th[t].after) /\ UNCHANGED fault
    /\ UNCHANGED << levelVars, loggerVars, lockVars, asyncVars, ops, inits,
                    accepted, processed, handed, dropped >>
    /\ UNCHANGED << routeVars, formatVars, timeVars, failed >>
    /\ UNCHANGED extraVars

(***************************************************************************)
(* UpdateLevel(logLevel).                                                  *)
(***************************************************************************)
\* zapUpdateLevel: zapcore.ParseLevel; a failure is printed and it returns
UpdateLevel(t, name) ==
    /\ CanStart(t)
    /\ ops' = ops + 1
    /\ th' = [th EXCEPT ![t] = [IdleThread EXCEPT
                !.pc = IF ParseOK(name) THEN "u_cfg" ELSE "u_read",
                !.name = name,
                !.e = [id |-> ops + 1, lvl |-> DebugLevel]]]
    /\ UNCHANGED << levelVars, loggerVars, lockVars, asyncVars, inits, fault,
                    histVars >>
    /\ UNCHANGED << routeVars, formatVars, timeVars, failed >>
    /\ UNCHANGED extraVars

\* globalMutex.Lock(); zapConfig.Level = logLevel; globalMutex.Unlock()
UpdateLevelConfig(t) ==
    /\ At(t, "u_cfg")
    /\ globalMutex = NoThread
    /\ Goto(t, "u_set")
    /\ UNCHANGED << levelVars, loggerVars, lockVars, asyncVars, ops, inits, fault,
                    histVars >>
    /\ UNCHANGED << routeVars, formatVars, timeVars, failed >>
    /\ UNCHANGED extraVars

\* atomicLevel.SetLevel(level); levelCache[logLevel] = level under its mutex
UpdateLevelSet(t) ==
    /\ At(t, "u_set")
    /\ IF atomicLevel = << >>
       THEN /\ Panic("nil pointer dereference")
            /\ UNCHANGED << atomicLevel, th, levelByName >>
       ELSE /\ atomicLevel' = << ParseLevel(th[t].name) >>
            /\ levelByName' = (th[t].name :> ParseLevel(th[t].name)) @@ levelByName
            /\ Goto(t, "u_notice")
            /\ UNCHANGED fault
    /\ UNCHANGED << flagVars, loggerVars, lockVars, asyncVars, ops, inits, histVars >>
    /\ UNCHANGED << routeVars, formatVars, timeVars, failed >>
    /\ UNCHANGED << stopFlag, skipCache, skipSize, skipped, checked >>

\* if atomicLevel.Level() <= DebugLevel and a logger is there: logger.Debug(..)
UpdateLevelNotice(t) ==
    /\ At(t, "u_notice")
    /\ IF Level <= DebugLevel /\ getLogger
       THEN /\ handed' = handed \cup {th[t].e.id}
            /\ IF Check(DebugLevel) # {}
               THEN th' = [th EXCEPT ![t].pc = "write", ![t].thr = Level,
                              ![t].cores = Check(DebugLevel), ![t].after = "u_read"]
               ELSE Goto(t, "u_read")
       ELSE Goto(t, "u_read") /\ UNCHANGED handed
    /\ UNCHANGED << levelVars, loggerVars, lockVars, asyncVars, ops, inits, fault,
                    sink, accepted, processed, dropped >>
    /\ UNCHANGED << routeVars, formatVars, timeVars, failed >>
    /\ UNCHANGED extraVars

\* UpdateLevel: atomicLevel.Level() != InvalidLevel, the argument of the refresh
UpdateLevelRead(t) ==
    /\ At(t, "u_read")
    /\ IF atomicLevel = << >>
       THEN Panic("nil pointer dereference") /\ UNCHANGED th
       ELSE /\ th' = [th EXCEPT ![t].pc = "u_store", ![t].cur = Level]
            /\ UNCHANGED fault
    /\ UNCHANGED << levelVars, loggerVars, lockVars, asyncVars, ops, inits, histVars >>
    /\ UNCHANGED << routeVars, formatVars, timeVars, failed >>
    /\ UNCHANGED extraVars

\* updateLevelCacheOptimized(the level read)
UpdateLevelStore(t) ==
    /\ At(t, "u_store")
    /\ updateLevelCacheOptimized(th[t].cur)
    /\ Return(t)
    /\ UNCHANGED << atomicLevel, loggerVars, lockVars, asyncVars, ops, inits, fault,
                    histVars >>
    /\ UNCHANGED << routeVars, formatVars, timeVars, failed >>
    /\ UNCHANGED extraVars

(***************************************************************************)
(* Debug / Info / Warn / Error (msg, args...), by level.                   *)
(***************************************************************************)
\* the fast pre-check of the entry point; zapX is called when it passes
Log(t, level) ==
    /\ CanStart(t)
    /\ ops' = ops + 1
    /\ IF isEnabledFast(level)
       THEN th' = [th EXCEPT ![t] = [IdleThread EXCEPT
                      !.pc = "zap", !.e = [id |-> ops + 1, lvl |-> level]]]
       ELSE UNCHANGED th
    /\ UNCHANGED << levelVars, loggerVars, lockVars, asyncVars, inits, fault,
                    histVars >>
    /\ UNCHANGED << routeVars, formatVars, timeVars, failed >>
    /\ UNCHANGED extraVars

\* zapX / XW: isAsyncEnabled() under asyncMutex.RLock
ZapLog(t) ==
    /\ At(t, "zap")
    /\ asyncMutex = NoThread
    /\ Goto(t, IF globalAsyncLogger # NoLogger THEN "async" ELSE "sync")
    /\ UNCHANGED << levelVars, loggerVars, lockVars, asyncVars, ops, inits, fault,
                    histVars >>
    /\ UNCHANGED << routeVars, formatVars, timeVars, failed >>
    /\ UNCHANGED extraVars

\* the synchronous branch: getLogger(), then logger.X(msg) checks the entry
SyncLog(t) ==
    /\ At(t, "sync")
    /\ IF getLogger
       THEN /\ handed' = handed \cup {th[t].e.id}
            /\ IF Check(th[t].e.lvl) # {}
               THEN th' = [th EXCEPT ![t].pc = "write", ![t].thr = Level,
                              ![t].cores = Check(th[t].e.lvl), ![t].after = "ret"]
               ELSE Return(t)
       ELSE Goto(t, "exitgame") /\ UNCHANGED handed
    /\ UNCHANGED << levelVars, loggerVars, lockVars, asyncVars, ops, inits, fault,
                    sink, accepted, processed, dropped >>
    /\ UNCHANGED << routeVars, formatVars, timeVars, failed >>
    /\ UNCHANGED extraVars

\* ExitGame: panics when not initialized, else (stop flag clear) calls Disaster
ExitGame(t) ==
    /\ At(t, "exitgame")
    /\ IF initialized = 0
       THEN Panic("ExitGame") /\ UNCHANGED th
       ELSE /\ UNCHANGED fault
            /\ IF stopFlag = 1
               THEN IF isEnabledFast(WarnLevel)
                    THEN th' = [th EXCEPT ![t].pc = "zap", ![t].e.lvl = WarnLevel,
                                          ![t].exits = CountExit(@)]
                    ELSE Return(t)
               ELSE th' = [th EXCEPT ![t].pc = "disaster", ![t].exits = CountExit(@)]
    /\ UNCHANGED << levelVars, loggerVars, lockVars, asyncVars, ops, inits, histVars >>
    /\ UNCHANGED << routeVars, formatVars, timeVars, failed >>
    /\ UNCHANGED extraVars

\* Disaster("%s", msg) inside ExitGame: logger.Error(..), then ExitGame panics;
\* without a logger Disaster calls ExitGame again
Disaster(t) ==
    /\ At(t, "disaster")
    /\ IF getLogger
       THEN /\ handed' = handed \cup {th[t].e.id}
            /\ IF Check(ErrorLevel) # {}
               THEN /\ th' = [th EXCEPT ![t].pc = "write", ![t].thr = Level,
                                 ![t].e = [id |-> th[t].e.id, lvl |-> ErrorLevel],
                                 ![t].cores = Check(ErrorLevel), ![t].after = "panic"]
                    /\ UNCHANGED fault
               ELSE Panic("ExitGame") /\ UNCHANGED th
       ELSE Goto(t, "exitgame") /\ UNCHANGED << handed, fault >>
    /\ UNCHANGED << levelVars, loggerVars, lockVars, asyncVars, ops, inits,
                    sink, accepted, processed, dropped >>
    /\ UNCHANGED << routeVars, formatVars, timeVars, failed >>
    /\ UNCHANGED extraVars

\* global xAsync: getAsyncLogger(); logAsyncWithSkip checks the LevelCache;
\* without an async logger it falls back to XW
AsyncLog(t) ==
    /\ At(t, "async")
    /\ asyncMutex = NoThread
    /\ IF globalAsyncLogger # NoLogger
       THEN IF isLevelEnabled(levelCache[globalAsyncLogger], th[t].e.lvl)
            THEN th' = [th EXCEPT ![t].pc = "send", ![t].ref = globalAsyncLogger]
            ELSE Return(t)
       ELSE Goto(t, "xw")
    /\ UNCHANGED << levelVars, loggerVars, lockVars, asyncVars, ops, inits, fault,
                    histVars >>
    /\ UNCHANGED << routeVars, formatVars, timeVars, failed >>
    /\ UNCHANGED extraVars

\* XW (the fallback of xAsync): the fast pre-check again
FallbackW(t) ==
    /\ At(t, "xw")
    /\ IF isEnabledFast(th[t].e.lvl)
       THEN th' = [th EXCEPT ![t].pc = "zap", ![t].args = FALSE]
       ELSE Return(t)
    /\ UNCHANGED << levelVars, loggerVars, lockVars, asyncVars, ops, inits, fault,
                    histVars >>
    /\ UNCHANGED << routeVars, formatVars, timeVars, failed >>
    /\ UNCHANGED extraVars

\* the channel send al.logChan <- entry
Enqueue(g, e) ==
    /\ logChan' = [logChan EXCEPT ![g] = Append(@, e)]
    /\ accepted' = [accepted EXCEPT ![g] = Append(@, e.id)]

\* a drop-on-full send that puts the entry into a full queue all the same
SendOrDropAppend(t) ==
    /\ At(t, "send")
    /\ dropOnFull[th[t].ref]
    /\ Enqueue(th[t].ref, th[t].e)
    /\ dropped' = IF Len(logChan[th[t].ref]) < chanCap[th[t].ref]
                  THEN dropped ELSE dropped \cup {th[t].e.id}
    /\ Return(t)
    /\ UNCHANGED << levelVars, loggerVars, lockVars, globalAsyncLogger, chanCap,
                    done, dropOnFull, levelCache, wpc, wcur, ops, inits, fault,
                    sink, processed, handed >>
    /\ UNCHANGED << routeVars, formatVars, timeVars, failed >>
    /\ UNCHANGED extraVars

\* logAsyncWithSkip, dropOnFull: select { case logChan <- entry: default: }
SendOrDrop(t) ==
    /\ At(t, "send")
    /\ dropOnFull[th[t].ref]
    /\ IF Len(logChan[th[t].ref]) < chanCap[th[t].ref]
       THEN Enqueue(th[t].ref, th[t].e) /\ UNCHANGED dropped
       ELSE dropped' = dropped \cup {th[t].e.id} /\ UNCHANGED << logChan, accepted >>
    /\ Return(t)
    /\ UNCHANGED << levelVars, loggerVars, lockVars, globalAsyncLogger, chanCap,
                    done, dropOnFull, levelCache, wpc, wcur, ops, inits, fault,
                    sink, processed, handed >>
    /\ UNCHANGED << routeVars, formatVars, timeVars, failed >>
    /\ UNCHANGED extraVars

\* a blocking send that does not look at the done channel
SendOnly(t) ==
    /\ At(t, "send")
    /\ ~dropOnFull[th[t].ref]
    /\ Len(logChan[th[t].ref]) < chanCap[th[t].ref]
    /\ Enqueue(th[t].ref, th[t].e)
    /\ Return(t)
    /\ UNCHANGED << levelVars, loggerVars, lockVars, globalAsyncLogger, chanCap,
                    done, dropOnFull, levelCache, wpc, wcur, ops, inits, fault,
                    sink, processed, handed, dropped >>
    /\ UNCHANGED << routeVars, formatVars, timeVars, failed >>
    /\ UNCHANGED extraVars

\* logAsyncWithSkip, blocking: select { case logChan <- entry: case <-done: }
SendOrDone(t) ==
    /\ At(t, "send")
    /\ ~dropOnFull[th[t].ref]
    /\ \/ /\ Len(logChan[th[t].ref]) < chanCap[th[t].ref]
          /\ Enqueue(th[t].ref, th[t].e)
       \/ /\ done[th[t].ref]
          /\ UNCHANGED << logChan, accepted >>
    /\ Return(t)
    /\ UNCHANGED << levelVars, loggerVars, lockVars, globalAsyncLogger, chanCap,
                    done, dropOnFull, levelCache, wpc, wcur, ops, inits, fault,
                    sink, processed, handed, dropped >>
    /\ UNCHANGED << routeVars, formatVars, timeVars, failed >>
    /\ UNCHANGED extraVars

(***************************************************************************)
(* The worker goroutine of an AsyncLogger: processLogs.                    *)
(***************************************************************************)
\* a worker that takes the newest entry instead of the oldest
DequeueLast(q) == q[Len(q)]

\* the entry the worker takes from logChan
Dequeue(q) == Head(q)
\* logChan after the worker took an entry
Rest(q) == Tail(q)

\* case entry := <-al.logChan, in processLogs and in drainRemainingLogs
WorkerRecv(g) ==
    /\ fault = "none"
    /\ wpc[g] \in {"select", "drain"}
    /\ logChan[g] # << >>
    /\ wcur' = [wcur EXCEPT ![g] = [NoWork EXCEPT !.id = Dequeue(logChan[g]).id,
                                                  !.lvl = Dequeue(logChan[g]).lvl]]
    /\ logChan' = [logChan EXCEPT ![g] = Rest(@)]
    /\ processed' = [processed EXCEPT ![g] = Append(@, Dequeue(logChan[g]).id)]
    /\ wpc' = [wpc EXCEPT ![g] = IF @ = "select" THEN "proc" ELSE "dproc"]
    /\ UNCHANGED << levelVars, loggerVars, lockVars, globalAsyncLogger, chanCap,
                    done, dropOnFull, levelCache, th, ops, inits, fault, sink,
                    accepted, handed, dropped >>
    /\ UNCHANGED << routeVars, formatVars, timeVars, failed >>
    /\ UNCHANGED extraVars

\* case <-al.done, in processLogs
WorkerDone(g) ==
    /\ fault = "none"
    /\ wpc[g] = "select"
    /\ done[g]
    /\ wpc' = [wpc EXCEPT ![g] = "drain"]
    /\ UNCHANGED << levelVars, loggerVars, lockVars, globalAsyncLogger, logChan,
                    chanCap, done, dropOnFull, levelCache, wcur, th, ops, inits,
                    fault, histVars >>
    /\ UNCHANGED << routeVars, formatVars, timeVars, failed >>
    /\ UNCHANGED extraVars

\* a drain that gives up while entries are still queued
WorkerExitEarly(g) ==
    /\ fault = "none"
    /\ wpc[g] = "drain"
    /\ wpc' = [wpc EXCEPT ![g] = "exited"]
    /\ UNCHANGED << levelVars, loggerVars, lockVars, globalAsyncLogger, logChan,
                    chanCap, done, dropOnFull, levelCache, wcur, th, ops, inits,
                    fault, histVars >>
    /\ UNCHANGED << routeVars, formatVars, timeVars, failed >>
    /\ UNCHANGED extraVars

\* default: in drainRemainingLogs; processLogs returns, wg.Done()
WorkerExit(g) ==
    /\ fault = "none"
    /\ wpc[g] = "drain"
    /\ logChan[g] = << >>
    /\ wpc' = [wpc EXCEPT ![g] = "exited"]
    /\ UNCHANGED << levelVars, loggerVars, lockVars, globalAsyncLogger, logChan,
                    chanCap, done, dropOnFull, levelCache, wcur, th, ops, inits,
                    fault, histVars >>
    /\ UNCHANGED << routeVars, formatVars, timeVars, failed >>
    /\ UNCHANGED extraVars

\* where the worker goes on after an entry
Loop(pc) == IF pc \in {"proc", "write"} THEN "select" ELSE "drain"

\* a worker that takes asyncMutex.RLock() to process an entry
WorkerProcessLocked(g) ==
    /\ fault = "none"
    /\ asyncMutex = NoThread
    /\ wpc[g] \in {"proc", "dproc"}
    /\ IF getLogger
       THEN /\ handed' = handed \cup {wcur[g].id}
            /\ IF Check(wcur[g].lvl) # {}
               THEN /\ wcur' = [wcur EXCEPT ![g].thr = Level,
                                            ![g].cores = Check(wcur[g].lvl)]
                    /\ wpc' = [wpc EXCEPT ![g] = IF @ = "proc" THEN "write" ELSE "dwrite"]
               ELSE /\ wcur' = [wcur EXCEPT ![g] = NoWork]
                    /\ wpc' = [wpc EXCEPT ![g] = Loop(@)]
       ELSE /\ wcur' = [wcur EXCEPT ![g] = NoWork]
            /\ wpc' = [wpc EXCEPT ![g] = Loop(@)]
            /\ UNCHANGED handed
    /\ UNCHANGED << levelVars, loggerVars, lockVars, globalAsyncLogger, logChan,
                    chanCap, done, dropOnFull, levelCache, th, ops, inits, fault,
                    sink, accepted, processed, dropped >>
    /\ UNCHANGED << routeVars, formatVars, timeVars, failed >>
    /\ UNCHANGED extraVars

\* processLogEntry: getLogger(); writeLogEntryWithCaller checks the entry
WorkerProcess(g) ==
    /\ fault = "none"
    /\ wpc[g] \in {"proc", "dproc"}
    /\ IF getLogger
       THEN /\ handed' = handed \cup {wcur[g].id}
            /\ IF Check(wcur[g].lvl) # {}
               THEN /\ wcur' = [wcur EXCEPT ![g].thr = Level,
                                            ![g].cores = Check(wcur[g].lvl)]
                    /\ wpc' = [wpc EXCEPT ![g] = IF @ = "proc" THEN "write" ELSE "dwrite"]
               ELSE /\ wcur' = [wcur EXCEPT ![g] = NoWork]
                    /\ wpc' = [wpc EXCEPT ![g] = Loop(@)]
       ELSE /\ wcur' = [wcur EXCEPT ![g] = NoWork]
            /\ wpc' = [wpc EXCEPT ![g] = Loop(@)]
            /\ UNCHANGED handed
    /\ UNCHANGED << levelVars, loggerVars, lockVars, globalAsyncLogger, logChan,
                    chanCap, done, dropOnFull, levelCache, th, ops, inits, fault,
                    sink, accepted, processed, dropped >>
    /\ UNCHANGED << routeVars, formatVars, timeVars, failed >>
    /\ UNCHANGED extraVars

\* ce.Write(entry.Fields...) on the worker
WorkerWrite(g) ==
    /\ fault = "none"
    /\ wpc[g] \in {"write", "dwrite"}
    /\ sink' = Append(sink, Record(wcur[g], wcur[g].thr, wcur[g].cores, "worker"))
    /\ wcur' = [wcur EXCEPT ![g] = NoWork]
    /\ wpc' = [wpc EXCEPT ![g] = Loop(@)]
    /\ UNCHANGED << levelVars, loggerVars, lockVars, globalAsyncLogger, logChan,
                    chanCap, done, dropOnFull, levelCache, th, ops, inits, fault,
                    accepted, processed, handed, dropped >>
    /\ UNCHANGED << routeVars, formatVars, timeVars, failed >>
    /\ UNCHANGED extraVars

\* a worker that stops at a write error
WorkerWriteFailStops(g) ==
    /\ fault = "none"
    /\ wpc[g] \in {"write", "dwrite"}
    /\ failed' = failed \cup {wcur[g].id}
    /\ wcur' = [wcur EXCEPT ![g] = NoWork]
    /\ wpc' = [wpc EXCEPT ![g] = "exited"]
    /\ UNCHANGED << levelVars, loggerVars, lockVars, globalAsyncLogger, logChan,
                    chanCap, done, dropOnFull, levelCache, th, ops, inits, fault,
                    histVars, routeVars, formatVars, timeVars >>
    /\ UNCHANGED extraVars

\* ce.Write(entry.Fields...) on the worker when the sink returns an error: zap
\* reports it on its ErrorOutput and the worker goes on
WorkerWriteFails(g) ==
    /\ fault = "none"
    /\ wpc[g] \in {"write", "dwrite"}
    /\ failed' = failed \cup {wcur[g].id}
    /\ wcur' = [wcur EXCEPT ![g] = NoWork]
    /\ wpc' = [wpc EXCEPT ![g] = Loop(@)]
    /\ UNCHANGED << levelVars, loggerVars, lockVars, globalAsyncLogger, logChan,
                    chanCap, done, dropOnFull, levelCache, th, ops, inits, fault,
                    histVars, routeVars, formatVars, timeVars >>
    /\ UNCHANGED extraVars

(***************************************************************************)
(* The specification.                                                      *)
(***************************************************************************)
ThreadStep(t) ==
    \/ InitialZapReadLevel(t) \/ InitialZapLogger(t) \/ InitialZapAsync(t)
    \/ InitialZapReplace(t) \/ InitialZapDone(t)
    \/ CloseWaited(t) \/ CloseLogger(t) \/ CloseDone(t)
    \/ UpdateLevelConfig(t) \/ UpdateLevelSet(t) \/ UpdateLevelNotice(t)
    \/ UpdateLevelRead(t) \/ UpdateLevelStore(t)
    \/ ZapLog(t) \/ SyncLog(t) \/ ExitGame(t) \/ Disaster(t) \/ AsyncLog(t)
    \/ FallbackW(t) \/ SendOrDrop(t) \/ SendOrDone(t) \/ Write(t)

WorkerStep(g) ==
    \/ WorkerRecv(g) \/ WorkerDone(g) \/ WorkerExit(g) \/ WorkerProcess(g)
    \/ WorkerWrite(g)

Call(t) ==
    \/ \E c \in Configs : InitialZap(t, c)
    \/ Close(t)
    \/ \E name \in LevelInputs : UpdateLevel(t, name)
    \/ \E level \in LogLevels : Log(t, level)

Next ==
    \/ \E t \in Threads : Call(t)
    \/ \E t \in Threads : ThreadStep(t)
    \/ \E g \in Gens : WorkerStep(g)

Spec == Init /\ [][Next]_vars

(***************************************************************************)
(* AsyncLogger.Close() called on a logger directly (the method is          *)
(* exported), next to the package-level operations.                        *)
(***************************************************************************)
\* close(al.done)
AsyncLoggerClose(t, g) ==
    /\ CanStart(t)
    /\ wpc[g] # "none"
    /\ ops' = ops + 1
    /\ IF done[g]
       THEN Panic("close of closed channel") /\ UNCHANGED << done, th >>
       ELSE /\ done' = [done EXCEPT ![g] = TRUE]
            /\ th' = [th EXCEPT ![t] = [IdleThread EXCEPT !.pc = "al_wait", !.ref = g]]
            /\ UNCHANGED fault
    /\ UNCHANGED << levelVars, loggerVars, lockVars, globalAsyncLogger, logChan,
                    chanCap, dropOnFull, levelCache, wpc, wcur, inits, histVars >>
    /\ UNCHANGED << routeVars, formatVars, timeVars, failed >>
    /\ UNCHANGED extraVars

\* al.wg.Wait() returns
AsyncLoggerClosed(t) ==
    /\ At(t, "al_wait")
    /\ wpc[th[t].ref] = "exited"
    /\ Return(t)
    /\ UNCHANGED << levelVars, loggerVars, lockVars, asyncVars, ops, inits, fault,
                    histVars >>
    /\ UNCHANGED << routeVars, formatVars, timeVars, failed >>
    /\ UNCHANGED extraVars

NextClose ==
    \/ Next
    \/ \E t \in Threads : \E g \in Gens : AsyncLoggerClose(t, g)
    \/ \E t \in Threads : AsyncLoggerClosed(t)

SpecClose == Init /\ [][NextClose]_vars

(***************************************************************************)
(* The running system: the states in which a first InitialZap with an      *)
(* asynchronous configuration has returned and nothing else has happened.  *)
(* The LevelCache of the first AsyncLogger holds the defaults, because     *)
(* newAsyncLogger runs before initialized is set.                          *)
(***************************************************************************)
InitRunning ==
    \E c \in { k \in Configs : k.async } :
        /\ atomicLevel = << IF ParseOK(c.level) THEN ParseLevel(c.level) ELSE InfoLevel >>
        /\ debugEnabledCache = boolToInt32(atomicLevel[1] <= DebugLevel)
        /\ infoEnabledCache = boolToInt32(atomicLevel[1] <= InfoLevel)
        /\ warnEnabledCache = boolToInt32(atomicLevel[1] <= WarnLevel)
        /\ errorEnabledCache = boolToInt32(atomicLevel[1] <= ErrorLevel)
        /\ initialized = 1
        /\ loggerPtr = 1
        /\ zapCores = Levels
        /\ globalMutex = NoThread
        /\ asyncMutex = NoThread
        /\ globalAsyncLogger = 1
        /\ logChan = [g \in Gens |-> << >>]
        /\ chanCap = [g \in Gens |-> IF g = 1 THEN BufferSize(c.size) ELSE 0]
        /\ done = [g \in Gens |-> FALSE]
        /\ dropOnFull = [g \in Gens |-> g = 1 /\ c.drop]
        /\ levelCache = [g \in Gens |-> DefaultLevelCache]
        /\ wpc = [g \in Gens |-> IF g = 1 THEN "select" ELSE "none"]
        /\ wcur = [g \in Gens |-> NoWork]
        /\ th = [t \in Threads |-> IdleThread]
        /\ ops = 0
        /\ inits = 1
        /\ fault = "none"
        /\ sink = << >>
        /\ accepted = [g \in Gens |-> << >>]
        /\ processed = [g \in Gens |-> << >>]
        /\ handed = {}
        /\ dropped = {}
        /\ NoRoutes
        /\ NoFormat
        /\ NoTime
        /\ NoExtras

\* the steps of logging calls, of Close() and of AsyncLogger.Close()
PipelineStep(t) ==
    \/ CloseWaited(t) \/ CloseLogger(t) \/ CloseDone(t) \/ AsyncLoggerClosed(t)
    \/ ZapLog(t) \/ SyncLog(t) \/ ExitGame(t) \/ Disaster(t) \/ AsyncLog(t)
    \/ FallbackW(t) \/ SendOrDrop(t) \/ SendOrDone(t) \/ Write(t)

\* the running system is used for logging and is closed
NextRunning ==
    \/ \E t \in Threads : Close(t)
    \/ \E t \in Threads : \E g \in Gens : AsyncLoggerClose(t, g)
    \/ \E t \in Threads : \E level \in LogLevels : Log(t, level)
    \/ \E t \in Threads : PipelineStep(t)
    \/ \E g \in Gens : WorkerStep(g)
    \/ \E g \in Gens : WorkerWriteFails(g)

\* scheduling: a thread inside a call and a worker goroutine are eventually
\* run; nothing obliges the application to start another call
FairRunning ==
    /\ InitRunning /\ [][NextRunning]_vars
    /\ \A t \in Threads : WF_vars(PipelineStep(t))
    /\ \A g \in Gens : WF_vars(WorkerStep(g))

(***************************************************************************)
(* Routing: ZapCore.Write and createWriteSyncer.  An entry that passed     *)
(* Check is written by the core of its level: through the sink of the core *)
(* when it carries no reserved field, else through a lumberjack logger of  *)
(* the sub-directory the reserved field names.  A path is the sequence of  *)
(* its directories; the service id and name are not empty.                 *)
(***************************************************************************)
\* a zapcore.Field of string type (Key, String); a field of another type has
\* the empty String
Field(key, str) == [key |-> key, str |-> str]

\* the field lists of the entries that are logged: no field; a reserved field
\* between two others; two reserved fields; a reserved field whose String is
\* empty; a reserved field that names a directory which cannot be created
FieldLists ==
    { << >>,
      << Field("module", "m"), Field("business", "orders"), Field("trace", "t") >>,
      << Field("folder", "orders"), Field("business", "reports") >>,
      << Field("directory", ""), Field("module", "m") >>,
      << Field("folder", "locked") >> }

\* the file system: os.MkdirAll fails for the directories of these names
Uncreatable == {"locked"}

\* os.MkdirAll(logDir) == nil, by the last directory of logDir
MkdirAll(format) == format \notin Uncreatable

\* the logLevel values of the InitialZap calls that are followed here
RouteLevelInputs == {"debug", "error"}

\* the keys ZapCore.Write takes as routing instructions
ReservedKeys == {"business", "folder", "directory"}

\* ZapCore.Write: filteredFields, the fields that are kept for the encoder
filteredFields(fields) == SelectSeq(fields, LAMBDA f : f.key \notin ReservedKeys)

\* ZapCore.Write: hasSpecialDirectory
hasSpecialDirectory(fields) == \E i \in DOMAIN fields : fields[i].key \in ReservedKeys

specialDirectoryFirst(fields) ==
    LET first == CHOOSE i \in DOMAIN fields :
                    /\ fields[i].key \in ReservedKeys
                    /\ \A j \in DOMAIN fields : fields[j].key \in ReservedKeys => i <= j
    IN  fields[first].str

\* ZapCore.Write: specialDirectory, the String of the last reserved field
specialDirectory(fields) ==
    LET last == CHOOSE i \in DOMAIN fields :
                    /\ fields[i].key \in ReservedKeys
                    /\ \A j \in DOMAIN fields : fields[j].key \in ReservedKeys => j <= i
    IN  fields[last].str

\* zapcore.Level.String() + ".log"
LevelFileName(z) ==
    CASE z = DebugLevel -> "debug.log"
      [] z = InfoLevel  -> "info.log"
      [] z = WarnLevel  -> "warn.log"
      [] z = ErrorLevel -> "error.log"
      [] z = ErrorLevel + 1 -> "dpanic.log"
      [] z = ErrorLevel + 2 -> "panic.log"
      [] z = FatalLevel -> "fatal.log"

\* ZapCore.getLogFileName (no SingleFileName configured)
getLogFileName(z, single) == IF single THEN "all.log" ELSE LevelFileName(z)

logDirNoFallback(format) ==
    IF format # "" THEN << "Director", "service", format >>
    ELSE << "Director", "service" >>

\* createWriteSyncer: logDir
logDir(format) ==
    IF ~MkdirAll(format) THEN << "Director" >>
    ELSE IF format # "" THEN << "Director", "service", format >>
         ELSE << "Director", "service" >>

\* &lumberjack.Logger{Filename: filepath.Join(logDir, logFileName), ..}
NewSink(z, dir, single) ==
    [dir |-> dir, file |-> getLogFileName(z, single), core |-> z, closed |-> 0]

\* initZap: the levels of the cores it creates
NewCores(single) == IF single THEN {DebugLevel} ELSE Levels

\* initZap: the main lumberjack loggers of the new cores, in order of creation
NewSinks(single) ==
    IF single
    THEN << NewSink(DebugLevel, logDir(""), single) >>
    ELSE [i \in 1..Cardinality(Levels) |->
            NewSink(DebugLevel + i - 1, logDir(""), single)]

\* the sink of the core of level z among the sinks initZap appends after n
MainSinkOf(z, single, n) ==
    IF z \notin NewCores(single) THEN 0
    ELSE IF single THEN n + 1 ELSE n + (z - DebugLevel) + 1

\* what an encoder and a sink receive (fields), for the entry e of the call
RouteRecord(e, s, fields) ==
    [id |-> e.id, lvl |-> e.lvl, sink |-> s, fields |-> fields, given |-> e.fields]

\* the state after InitialZap with a synchronous configuration has returned
InitRoute ==
    \E single \in BOOLEAN : \E name \in RouteLevelInputs :
        /\ atomicLevel = << IF ParseOK(name) THEN ParseLevel(name) ELSE InfoLevel >>
        /\ FlagsAre(atomicLevel[1])
        /\ initialized = 1
        /\ loggerPtr = 1
        /\ zapCores = NewCores(single)
        /\ globalMutex = NoThread
        /\ asyncMutex = NoThread
        /\ globalAsyncLogger = NoLogger
        /\ logChan = [g \in Gens |-> << >>]
        /\ chanCap = [g \in Gens |-> 0]
        /\ done = [g \in Gens |-> FALSE]
        /\ dropOnFull = [g \in Gens |-> FALSE]
        /\ levelCache = [g \in Gens |-> DefaultLevelCache]
        /\ wpc = [g \in Gens |-> "none"]
        /\ wcur = [g \in Gens |-> NoWork]
        /\ th = [t \in Threads |-> IdleThread]
        /\ ops = 0
        /\ inits = 1
        /\ fault = "none"
        /\ sink = << >>
        /\ accepted = [g \in Gens |-> << >>]
        /\ processed = [g \in Gens |-> << >>]
        /\ handed = {}
        /\ dropped = {}
        /\ singleFile = single
        /\ sinks = NewSinks(single)
        /\ coreSink = [z \in Levels |-> MainSinkOf(z, single, 0)]
        /\ lumberjackLogger = [z \in Levels |-> MainSinkOf(z, single, 0)]
        /\ specialLoggers = [z \in Levels |-> << >>]
        /\ routed = {}
        /\ NoFormat
        /\ NoTime
        /\ NoExtras

\* logger.X(msg, fields...) on the synchronous path: Check through the tee
RouteLog(t, level, fields) ==
    /\ CanStart(t)
    /\ getLogger
    /\ ops' = ops + 1
    /\ IF Check(level) # {}
       THEN th' = [th EXCEPT ![t] = [IdleThread EXCEPT
                      !.pc = "zc_write", !.thr = Level, !.cores = Check(level),
                      !.e = [id |-> ops + 1, lvl |-> level, fields |-> fields]]]
       ELSE UNCHANGED th
    /\ UNCHANGED << levelVars, loggerVars, lockVars, asyncVars, inits, fault,
                    histVars, routeVars, formatVars, timeVars, failed >>
    /\ UNCHANGED extraVars

\* ZapCore.Write: without a reserved field z.Core.Write, else createWriteSyncer
ZapCoreWrite(t) ==
    /\ At(t, "zc_write")
    /\ LET z == CHOOSE c \in th[t].cores : TRUE
           fields == th[t].e.fields
       IN  IF hasSpecialDirectory(fields)
           THEN /\ th' = [th EXCEPT ![t].pc = "cws", ![t].cur = z,
                                    ![t].name = specialDirectory(fields)]
                /\ UNCHANGED routed
           ELSE /\ routed' = routed \cup
                        {RouteRecord(th[t].e, coreSink[z], filteredFields(fields))}
                /\ Return(t)
    /\ UNCHANGED << levelVars, loggerVars, lockVars, asyncVars, ops, inits, fault,
                    histVars, singleFile, sinks, coreSink, lumberjackLogger,
                    specialLoggers, formatVars, timeVars, failed >>
    /\ UNCHANGED extraVars

\* createWriteSyncer(name, id, specialDirectory): os.MkdirAll, then the lookup
\* in the cache under RLock, or (empty format) a new main lumberjack logger
createWriteSyncer(t) ==
    /\ At(t, "cws")
    /\ LET z == th[t].cur
            dir == logDir(th[t].name)
        IN  IF th[t].name # ""
            THEN /\ IF dir \in DOMAIN specialLoggers[z]
                    THEN th' = [th EXCEPT ![t].pc = "tc_write", ![t].dir = dir,
                                          ![t].ref = specialLoggers[z][dir]]
                    ELSE th' = [th EXCEPT ![t].pc = "cws_new", ![t].dir = dir]
                 /\ UNCHANGED << sinks, lumberjackLogger >>
            ELSE /\ sinks' = Append(sinks, NewSink(z, dir, singleFile))
                 /\ lumberjackLogger' = [lumberjackLogger EXCEPT ![z] = Len(sinks) + 1]
                 /\ th' = [th EXCEPT ![t].pc = "tc_write", ![t].dir = dir,
                                      ![t].ref = Len(sinks) + 1]
    /\ UNCHANGED << levelVars, loggerVars, lockVars, asyncVars, ops, inits, fault,
                    histVars, singleFile, coreSink, specialLoggers, routed,
                    formatVars, timeVars, failed >>
    /\ UNCHANGED extraVars

\* createWriteSyncer after a miss: a new lumberjack logger, stored under Lock
cacheLogger(t) ==
    /\ At(t, "cws_new")
    /\ LET z == th[t].cur
           s == Len(sinks) + 1
       IN  /\ sinks' = Append(sinks, NewSink(z, th[t].dir, singleFile))
           /\ specialLoggers' = [specialLoggers EXCEPT ![z] = (th[t].dir :> s) @@ @]
           /\ th' = [th EXCEPT ![t].pc = "tc_write", ![t].ref = s]
    /\ UNCHANGED << levelVars, loggerVars, lockVars, asyncVars, ops, inits, fault,
                    histVars, singleFile, coreSink, lumberjackLogger, routed,
                    formatVars, timeVars, failed >>
    /\ UNCHANGED extraVars

\* a Write that keeps the syncer of the sub-directory as the sink of the core
TempCoreWriteKeepingSyncer(t) ==
    /\ At(t, "tc_write")
    /\ routed' = routed \cup
            {RouteRecord(th[t].e, th[t].ref, filteredFields(th[t].e.fields))}
    /\ coreSink' = [coreSink EXCEPT ![th[t].cur] = th[t].ref]
    /\ Return(t)
    /\ UNCHANGED << levelVars, loggerVars, lockVars, asyncVars, ops, inits, fault,
                    histVars, singleFile, sinks, lumberjackLogger,
                    specialLoggers, formatVars, timeVars, failed >>
    /\ UNCHANGED extraVars

\* tempCore.Write(entry, filteredFields)
TempCoreWrite(t) ==
    /\ At(t, "tc_write")
    /\ routed' = routed \cup
            {RouteRecord(th[t].e, th[t].ref, filteredFields(th[t].e.fields))}
    /\ Return(t)
    /\ UNCHANGED << levelVars, loggerVars, lockVars, asyncVars, ops, inits, fault,
                    histVars, singleFile, sinks, coreSink, lumberjackLogger,
                    specialLoggers, formatVars, timeVars, failed >>
    /\ UNCHANGED extraVars

\* ZapCore.Close of the core of level z
ZapCoreClose(z) ==
    /\ fault = "none"
    /\ ops < MaxOps
    /\ z \in zapCores
    /\ ops' = ops + 1
    /\ sinks' = [i \in DOMAIN sinks |->
                    IF i = lumberjackLogger[z] \/ i \in Range(specialLoggers[z])
                    THEN [sinks[i] EXCEPT !.closed = @ + 1]
                    ELSE sinks[i]]
    /\ lumberjackLogger' = [lumberjackLogger EXCEPT ![z] = 0]
    /\ specialLoggers' = [specialLoggers EXCEPT ![z] = << >>]
    /\ UNCHANGED << levelVars, loggerVars, lockVars, asyncVars, th, inits, fault,
                    histVars, singleFile, coreSink, routed, formatVars, timeVars, failed >>
    /\ UNCHANGED extraVars

\* InitialZap called again while no call is running, with the same logLevel:
\* initZap replaces zapCores by new cores
initZap(single) ==
    /\ fault = "none"
    /\ ops < MaxOps
    /\ inits < MaxInits
    /\ \A t \in Threads : th[t].pc = "idle"
    /\ ops' = ops + 1
    /\ inits' = inits + 1
    /\ singleFile' = single
    /\ zapCores' = NewCores(single)
    /\ loggerPtr' = inits + 1
    /\ initialized' = 1
    /\ sinks' = sinks \o NewSinks(single)
    /\ coreSink' = [z \in Levels |-> MainSinkOf(z, single, Len(sinks))]
    /\ lumberjackLogger' = [z \in Levels |-> MainSinkOf(z, single, Len(sinks))]
    /\ specialLoggers' = [z \in Levels |-> << >>]
    /\ UNCHANGED << levelVars, lockVars, asyncVars, th, fault, histVars, routed,
                    formatVars, timeVars, failed >>
    /\ UNCHANGED extraVars

RouteStep(t) ==
    \/ ZapCoreWrite(t) \/ createWriteSyncer(t) \/ cacheLogger(t) \/ TempCoreWrite(t)
    \/ CloseLogger(t) \/ CloseDone(t)

NextRoute ==
    \/ \E t \in Threads : \E level \in LogLevels : \E fields \in FieldLists :
            RouteLog(t, level, fields)
    \/ \E t \in Threads : RouteStep(t)
    \/ \E t \in Threads : Close(t)
    \/ \E z \in LogLevels : ZapCoreClose(z)
    \/ \E single \in BOOLEAN : initZap(single)

SpecRoute == InitRoute /\ [][NextRoute]_vars

(***************************************************************************)
(* Lock / Critical / Disaster (msg, args...) on the routes: each writes on *)
(* the calling thread, with the fields its branch passes to the logger.    *)
(* formatToStringBuilder returns nil in every branch, so the branch of a   *)
(* formatting error is never taken.                                        *)
(***************************************************************************)
DirectCalls == {"Lock", "Critical", "Disaster"}

\* logger.Info for Lock, logger.Warn for Critical, logger.Error for Disaster
DirectLevel(fn) ==
    CASE fn = "Lock" -> InfoLevel
      [] fn = "Critical" -> WarnLevel
      [] fn = "Disaster" -> ErrorLevel

\* the fields of the call to the logger: hasArgs is len(args) > 0
DirectFields(fn, hasArgs) ==
    CASE fn = "Lock" -> << Field("directory", "concurrent") >>
      [] fn = "Critical" -> << Field("directory", "emergency") >>
      [] fn = "Disaster" -> IF hasArgs THEN << >>
                            ELSE << Field("directory", "emergency") >>

\* Lock / Critical / Disaster with a logger: Check through the tee, then Write
RouteDirect(t, fn, hasArgs) ==
    RouteLog(t, DirectLevel(fn), DirectFields(fn, hasArgs))

NextEmergency ==
    \/ \E t \in Threads : \E fn \in DirectCalls : \E hasArgs \in BOOLEAN :
            RouteDirect(t, fn, hasArgs)
    \/ \E t \in Threads : RouteStep(t)
    \/ \E t \in Threads : Close(t)

SpecEmergency == InitRoute /\ [][NextEmergency]_vars

(***************************************************************************)
(* Properties.                                                             *)
(***************************************************************************)
IsPrefix(s, q) == Len(s) <= Len(q) /\ \A i \in DOMAIN s : s[i] = q[i]

\* the flags that updateLevelCacheOptimized stores for a threshold
FlagsMatch(level) ==
    /\ debugEnabledCache = boolToInt32(level <= DebugLevel)
    /\ infoEnabledCache = boolToInt32(level <= InfoLevel)
    /\ warnEnabledCache = boolToInt32(level <= WarnLevel)
    /\ errorEnabledCache = boolToInt32(level <= ErrorLevel)

\* thread t is under the blocking policy at the channel send of its logger
AtBlockingSend(t) == th[t].pc = "send" /\ ~dropOnFull[th[t].ref]

\* C1 as stated: at the moment a record is written to a sink, the level of
\* the record is not below the threshold held in atomicLevel.
C1_NoWriteBelowThreshold ==
    [][\A i \in DOMAIN sink' : i > Len(sink) => sink'[i].lvl >= atomicLevel'[1]]_vars

\* C1 amended: every record written to a sink was taken by ZapCore.Check of
\* the core of its own level, at a moment when its level was not below the
\* threshold (the threshold may have been raised between Check and Write).
C1_WrittenPassedCheck ==
    \A i \in DOMAIN sink : sink[i].thr <= sink[i].lvl /\ sink[i].cores = {sink[i].lvl}

\* C1 witness: the worker has written a record whose level is now below the
\* threshold, and a calling thread has written one in synchronous mode.
C1_Witness ==
    /\ atomicLevel # << >>
    /\ \E i \in DOMAIN sink : sink[i].by = "worker" /\ sink[i].lvl < Level

\* C2: no entry that was sent into logChan is lost: it is in the queue of a
\* worker that has not exited, or in the hands of the worker, or it was given
\* to the logger core.
C2_NoAcceptedEntryLost ==
    \A g \in Gens : \A i \in DOMAIN accepted[g] :
        \/ accepted[g][i] \in handed
        \/ /\ wpc[g] # "exited"
           /\ \E k \in DOMAIN logChan[g] : logChan[g][k].id = accepted[g][i]
        \/ /\ wpc[g] \in {"proc", "dproc"}
           /\ wcur[g].id = accepted[g][i]

\* C3: under the blocking policy, when Close() is past al.wg.Wait(), every
\* entry that was in the pipeline's accepted list when Close() was called has
\* been given to processLogEntry.
C3_DrainComplete ==
    \A t \in Threads :
        (th[t].pc \in {"cl_ptr", "cl_init"} /\ th[t].ref # NoLogger
            /\ ~dropOnFull[th[t].ref])
        => th[t].snap \subseteq Range(processed[th[t].ref])

\* C3 witness: a Close() of a blocking pipeline has waited for the worker and
\* entries had been submitted before it was called.
C3_Witness ==
    \E t \in Threads :
        /\ th[t].pc = "cl_ptr" /\ th[t].ref # NoLogger
        /\ ~dropOnFull[th[t].ref] /\ th[t].snap # {}

C5_DropOnFull ==
    [][/\ \A t \in Threads :
            (SendOrDrop(t) /\ Len(logChan[th[t].ref]) >= chanCap[th[t].ref])
            => /\ logChan' = logChan
               /\ th'[t].pc = "idle"
               /\ th[t].e.id \in dropped'
       /\ \A t \in Threads :
            (fault' = "none" /\ th'[t].pc = "send" /\ dropOnFull'[th'[t].ref])
            => (ENABLED SendOrDrop(t))'
       /\ \A i \in DOMAIN sink' : sink'[i].id \notin dropped']_vars

\* C5 witness: an entry was discarded at a full queue.
C5_Witness == dropped # {}

\* C6: under the blocking policy a producer at the channel send eventually
\* leaves it (or the process has ended with a panic).
C6_SubmitReturns ==
    \A t \in Threads :
        AtBlockingSend(t) ~> (~AtBlockingSend(t) \/ fault # "none")

\* C6 witness: a producer is at the send of a blocking pipeline whose queue is
\* full and whose worker has exited.
C6_Witness ==
    \E t \in Threads :
        /\ AtBlockingSend(t)
        /\ Len(logChan[th[t].ref]) >= chanCap[th[t].ref]
        /\ done[th[t].ref]
        /\ wpc[th[t].ref] = "exited"

\* C33: a thread inside Close() eventually returns from it (or the process
\* has ended with a panic), when the callers' steps and the worker are
\* scheduled fairly.
C33_CloseReturns ==
    \A t \in Threads :
        (th[t].pc \in {"cl_wait", "cl_ptr", "cl_init"})
            ~> (th[t].pc = "idle" \/ fault # "none")

\* C33 witness: Close() waits for the worker, holding asyncMutex, while the
\* queue is full, a producer is blocked at the send of the blocking policy, and
\* the worker has not yet seen done.
C33_Witness ==
    \E t, u \in Threads :
        /\ th[t].pc = "cl_wait"
        /\ asyncMutex = t
        /\ AtBlockingSend(u)
        /\ th[u].ref = th[t].ref
        /\ Len(logChan[th[t].ref]) >= chanCap[th[t].ref]
        /\ wpc[th[t].ref] = "select"

\* a shutdown of pipeline g has returned
ShutDown(g) ==
    /\ done[g] /\ wpc[g] = "exited"
    /\ \A t \in Threads : ~(th[t].pc \in {"cl_wait", "al_wait", "iz_wait"} /\ th[t].ref = g)

\* C7: a shutdown called after a shutdown of the same logger has returned
\* (Close(), or AsyncLogger.Close() on that logger) does not fault, and no
\* entry is ever written twice.
C7_ShutdownIdempotent ==
    [][/\ \A t \in Threads :
            (Close(t) /\ (globalAsyncLogger = NoLogger \/ ShutDown(globalAsyncLogger)))
            => fault' = "none"
       /\ \A t \in Threads : \A g \in Gens :
            (AsyncLoggerClose(t, g) /\ ShutDown(g)) => fault' = "none"
       /\ \A i, j \in DOMAIN sink' : sink'[i].id = sink'[j].id => i = j]_vars

\* C8: when an UpdateLevel call with a name that does not parse has finished,
\* the threshold is Info and the fast-path flags are those of Info.
C8_ParseFailureSetsInfo ==
    [][\A t \in Threads :
        (UpdateLevelStore(t) /\ ~ParseOK(th[t].name))
        => (atomicLevel' = << InfoLevel >> /\ FlagsMatch(InfoLevel)')]_vars

\* no UpdateLevel and no InitialZap call is in progress
LevelQuiescent ==
    \A t \in Threads :
        th[t].pc \notin {"iz_read", "iz_store", "iz_async", "iz_wait", "iz_fin",
                         "u_cfg", "u_set", "u_notice", "u_read", "u_store"}
        /\ ~(th[t].pc = "write" /\ th[t].after = "u_read")

\* C9: whenever no UpdateLevel or InitialZap call is in progress, the four
\* fast-path flags agree with the threshold.
C9_FlagsAgree == (LevelQuiescent /\ atomicLevel # << >>) => FlagsMatch(Level)

\* C10: a logging call made while the system is not initialized (and no
\* InitialZap is running) does not return; it panics.
C10_UninitializedCallPanics ==
    [][\A t \in Threads : \A level \in LogLevels :
        (Log(t, level) /\ initialized = 0 /\ globalMutex = NoThread)
        => th'[t].pc # "idle"]_vars

(***************************************************************************)
(* Routing by reserved fields (ZapCore.Write, createWriteSyncer).          *)
(***************************************************************************)
RECURSIVE OtherFields(_)
\* the fields of a list whose key is not business, folder or directory, in the
\* order of the list
OtherFields(fields) ==
    IF fields = << >> THEN << >>
    ELSE IF Head(fields).key \in {"business", "folder", "directory"}
         THEN OtherFields(Tail(fields))
         ELSE << Head(fields) >> \o OtherFields(Tail(fields))

\* the directories of the file a record was written to
PathOf(r) == sinks[r.sink].dir

InPath(v, r) == \E k \in DOMAIN PathOf(r) : PathOf(r)[k] = v

\* the encoder got no reserved key, and the other fields in their order
EncoderFields(r) ==
    /\ \A i \in DOMAIN r.fields : r.fields[i].key \notin ReservedKeys
    /\ r.fields = OtherFields(r.given)

C12_OneSinkPerKey ==
    [][\A t \in Threads :
        /\ cacheLogger(t) => th[t].dir \notin DOMAIN specialLoggers[th[t].cur]
        /\ (TempCoreWrite(t) /\ th[t].name # ""
                /\ th[t].dir \in DOMAIN specialLoggers[th[t].cur])
            => th[t].ref = specialLoggers[th[t].cur][th[t].dir]]_vars
\* C13: in single-file mode a call at a level at or above the threshold is
\* accepted by ZapCore.Check (the call goes on to ZapCore.Write), a call below
\* the threshold is not, and no entry is written twice.
C13_SingleFileAcceptsAllLevels ==
    [][\A t \in Threads : \A level \in LogLevels : \A fields \in FieldLists :
        (RouteLog(t, level, fields) /\ singleFile)
            => /\ (level >= Level) <=> (th'[t].pc = "zc_write")
               /\ \A r1, r2 \in routed : r1.id = r2.id => r1 = r2]_vars
\* C32: in per-level mode a call at an enabled level L is accepted by the
\* core of level L and by no other core, a call below the threshold by none;
\* every record is in a sink of the core of its own level and no entry is
\* written twice.
C32_PerLevelOneRoute ==
    /\ [](\A r \in routed : /\ sinks[r.sink].core = r.lvl
                             /\ \A q \in routed : q.id = r.id => q = r)
    /\ [][\A t \in Threads : \A level \in LogLevels : \A fields \in FieldLists :
            (RouteLog(t, level, fields) /\ ~singleFile)
                => IF level >= Level
                   THEN th'[t].pc = "zc_write" /\ th'[t].cores = {level}
                   ELSE th'[t].pc = "idle"]_vars

\* C32 witness: in per-level mode at threshold Debug a Warn entry has been
\* written, once, to a sink of the Warn core
C32_Witness ==
    /\ ~singleFile
    /\ Level = DebugLevel
    /\ \E r \in routed : r.lvl = WarnLevel /\ sinks[r.sink].core = WarnLevel
\* C34: no step of a write changes the sink of a core (z.Core), with or
\* without a reserved field; a write without a reserved field goes to the
\* sink of its core, and every entry logged without a reserved field is in a
\* sink of the default directory, whatever was written before it.
C34_ReservedWriteKeepsCore ==
    /\ [](\A r \in routed :
            ~hasSpecialDirectory(r.given) => sinks[r.sink].dir = logDir(""))
    /\ [][\A t \in Threads :
            /\ RouteStep(t) => coreSink' = coreSink
            /\ (ZapCoreWrite(t) /\ ~hasSpecialDirectory(th[t].e.fields))
                   => \E z \in th[t].cores :
                        routed' = routed \cup
                            {RouteRecord(th[t].e, coreSink[z],
                                         filteredFields(th[t].e.fields))}]_vars

\* C34 witness: a core wrote an entry with a reserved field to a sub-directory
\* and afterwards an entry without one, which is in the sink of the core
C34_Witness ==
    /\ inits = 1
    /\ \E r1, r2 \in routed :
            /\ r1.id < r2.id
            /\ sinks[r1.sink].core = sinks[r2.sink].core
            /\ hasSpecialDirectory(r1.given)
            /\ sinks[r1.sink].dir # logDir("")
            /\ ~hasSpecialDirectory(r2.given)
            /\ r2.sink = coreSink[sinks[r2.sink].core]
\* C35 as stated: no step of a write that carries a reserved field key makes
\* a lumberjack logger for the default directory or replaces the main
\* lumberjack logger of a core (z.lumberjackLogger).
C35_ReservedWriteKeepsMainLogger ==
    [][\A t \in Threads :
        (/\ \/ ZapCoreWrite(t) \/ createWriteSyncer(t)
            \/ cacheLogger(t) \/ TempCoreWrite(t)
         /\ hasSpecialDirectory(th[t].e.fields))
            => /\ lumberjackLogger' = lumberjackLogger
               /\ \A i \in DOMAIN sinks' \ DOMAIN sinks :
                      sinks'[i].dir # logDir("")]_vars
\* C36 as stated, for the sequences that consist of InitialZap calls alone
\* (globalMutex makes them run one after the other; ops = inits: no other call
\* was made): when InitialZap returns, an async logger exists exactly when the
\* configuration of that call has EnableAsync.
C36_AsyncFollowsLastInit ==
    [][\A t \in Threads :
        (InitialZapDone(t) /\ ops = inits)
            => (globalAsyncLogger' # NoLogger) = th[t].cfg.async]_vars
\* C37 as stated: every record of a call Debug/Info/Warn/Error(msg, args...)
\* is written with the message formatted from msg and args (by zapX on the
\* caller or by the worker), never by XW(msg, fields...), which has only msg.
C37_RecordsAreFormatted ==
    \A i \in DOMAIN sink : sink[i].by # "XW"
\* C38 as stated: every record of a Disaster call (the Error records of the
\* direct entry points) is in a sink of the "emergency" sub-directory.
C38_DisasterToEmergency ==
    \A r \in routed :
        r.lvl = DirectLevel("Disaster") => sinks[r.sink].dir = logDir("emergency")
RECURSIVE LastTag(_)
\* the value of the last reserved field of a field list, "" without one
LastTag(fields) ==
    IF fields = << >> THEN ""
    ELSE IF fields[Len(fields)].key \in ReservedKeys
         THEN fields[Len(fields)].str
         ELSE LastTag(SubSeq(fields, 1, Len(fields) - 1))

C20_SinksClosedExactlyOnce ==
    /\ \A i \in DOMAIN sinks : sinks[i].closed <= 1
    /\ (initialized = 0 /\ \A t \in Threads : th[t].pc = "idle")
            => \A i \in DOMAIN sinks : sinks[i].closed = 1
    /\ \A i \in DOMAIN sinks :
            (\A z \in Levels : /\ i # coreSink[z]
                               /\ i # lumberjackLogger[z]
                               /\ i \notin Range(specialLoggers[z]))
                => sinks[i].closed = 1
(***************************************************************************)
(* A write error inside the worker.                                        *)
(***************************************************************************)
\* the ids of the entries waiting in the queue of pipeline g
Queued(g) == { logChan[g][k].id : k \in DOMAIN logChan[g] }

\* C18: a write that fails inside the worker does not stop the worker: the
\* worker goroutine has exited only if Close has closed done, and once a write
\* has failed every entry in the queue of a worker that has not exited is
\* dequeued and given to processLogEntry (or the process has ended in a panic).
C18_WorkerSurvivesWriteError ==
    /\ [](\A g \in Gens : wpc[g] = "exited" => done[g])
    /\ \A g \in Gens : \A i \in 1..MaxOps :
            (failed # {} /\ wpc[g] # "exited" /\ i \in Queued(g))
                ~> (i \in Range(processed[g]) \/ fault # "none")

\* C18 witness: a write has failed and the worker, not shut down, has taken
\* and written a later entry
C18_Witness ==
    \E g \in Gens : \E i \in failed : \E k \in DOMAIN sink :
        /\ ~done[g]
        /\ i \in Range(processed[g])
        /\ sink[k].id > i /\ sink[k].id \in Range(processed[g])
(***************************************************************************)
(* Formatting: SafeFormatter, formatMessage, the safety mode.              *)
(* A string is a sequence of pieces; it is empty when every piece is "".   *)
(* A format is a sequence of tokens: a verb ("%v", "%s", "%d") or text.    *)
(***************************************************************************)
\* deepest nesting of calls a goroutine stack holds
StackLimit == 8

Verbs == {"%v", "%s", "%d"}

\* an argument of a log call
Value(kind, str, n, flag, heap) ==
    [kind |-> kind, s |-> str, n |-> n, b |-> flag, heap |-> heap]

Nil == Value("nil", "", 0, FALSE, << >>)
StringArg(str) == Value("string", str, 0, FALSE, << >>)
IntArg(n) == Value("int", "", n, FALSE, << >>)
\* a map[string]int of n keys (n = -1: the nil map); busy: another goroutine
\* writes and deletes
MapArg(n, busy) == Value("map", "map[string]int", n, busy, << >>)
\* a map of the type named, with the keys given
MapOf(type, keys) == Value("map", type, Len(keys), FALSE, keys)
\* a *E whose Error() reads a field of the receiver; nilReceiver: (*E)(nil)
ErrorArg(nilReceiver) == Value("error", "boom", 0, nilReceiver, << >>)
\* a *Node at address at (0: nil) of a heap of struct { Next *Node }: heap[a]
\* is the Next of the Node at address a
PtrArg(at, heap) == Value("ptr", "", at, FALSE, heap)
StructArg(at, heap) == Value("struct", "", at, FALSE, heap)
\* a map[string]interface{} of n entries made by structToSafeMap
SafeMap(n) == Value("safemap", "", n, FALSE, << >>)
\* a slice of the element type named; isNil: the nil slice
SliceArg(type, elems, isNil) == Value("slice", type, Len(elems), isNil, elems)
\* the []interface{} sliceToSafe makes
List(elems) == Value("list", "", Len(elems), FALSE, elems)
\* a panic or a fatal error of the runtime
Fault(what) == Value("fault", what, 0, FALSE, << >>)

\* sliceToSafe copies a slice of at most this many elements
SliceCopyLimit == 10

\* the arguments the calls are made with
Args ==
    { Nil, StringArg(""), StringArg("x"), IntArg(7),
      MapArg(0, FALSE), MapArg(1, FALSE), MapArg(1, TRUE),
      MapArg(-1, FALSE), MapOf("map[string]int", << "j" >>),
      MapOf("map[int]bool", << "2", "3" >>),
      ErrorArg(FALSE), ErrorArg(TRUE),
      PtrArg(0, << >>), PtrArg(1, << 0 >>), PtrArg(1, << 2, 0 >>),
      PtrArg(1, << 1 >>), PtrArg(1, << 2, 1 >>),
      SliceArg("int", << >>, TRUE), SliceArg("int", << >>, FALSE),
      SliceArg("interface {}", << StringArg("x"), MapArg(1, TRUE), Nil >>, FALSE),
      SliceArg("error", << ErrorArg(FALSE), ErrorArg(TRUE) >>, FALSE),
      SliceArg("int", [k \in 1..SliceCopyLimit |-> IntArg(7)], FALSE),
      SliceArg("int", [k \in 1..(SliceCopyLimit + 1) |-> IntArg(7)], FALSE) }

ArgLists == { << >> } \cup { << a >> : a \in Args } \cup { << StringArg("x"), IntArg(7) >> }

\* the format strings the calls are made with, none of them empty
Formats == { << "%v" >>, << "%s" >>, << "id=", "%d" >>, << "done" >> }

\* the values of globalSafetyMode: the three constants and one outside them
Modes == {SafetyModeDefault, SafetyModeAlways, SafetyModeNever, SafetyModeNever + 1}

\* isZeroValue of a pointer field
isZeroValue(at) == at = 0

\* the keys of a map as fmt prints them
MapKeys(val) ==
    IF val.n <= 0 THEN ""
    ELSE IF val.heap = << >> THEN "k:1"
    ELSE IF Len(val.heap) = 1 THEN val.heap[1] \o ":1"
    ELSE val.heap[1] \o ":true " \o val.heap[2] \o ":true"

mapToSafeStringContents(val, lenOK) ==
    IF val.n < 0 THEN StringArg("nil")
    ELSE StringArg(val.s \o "{" \o MapKeys(val) \o "}")

\* SafeFormatter.mapToSafeString; lenOK: val.Len() returned without a panic
mapToSafeString(val, lenOK) ==
    IF val.n < 0 THEN StringArg("nil")
    ELSE IF lenOK
         THEN IF val.n = 0 THEN StringArg(val.s \o "{}")
              ELSE StringArg(val.s \o "{len=" \o ToString(val.n) \o "}")
         ELSE StringArg(val.s \o "{concurrent}")

\* the first fault among the operands, "none" without one
FirstFault(vals) ==
    IF \E k \in DOMAIN vals : vals[k].kind = "fault"
    THEN vals[CHOOSE k \in DOMAIN vals :
                /\ vals[k].kind = "fault"
                /\ \A j \in DOMAIN vals : vals[j].kind = "fault" => k <= j].s
    ELSE "none"

RECURSIVE makeArgSafe(_, _, _)
RECURSIVE makeComplexArgSafe(_, _, _)
RECURSIVE structToSafeMap(_, _, _)
RECURSIVE sliceToSafe(_, _, _)

sliceToSafeSummary(val, lenOK, stack) ==
    IF val.b THEN Nil
    ELSE StringArg("[" \o ToString(val.n) \o " items of " \o val.s \o "]")

\* SafeFormatter.sliceToSafe
sliceToSafe(val, lenOK, stack) ==
    IF val.b THEN Nil
    ELSE IF val.n <= SliceCopyLimit
         THEN LET result == [i \in 1..val.n |-> makeArgSafe(val.heap[i], lenOK, stack - 1)]
              IN  IF FirstFault(result) # "none" THEN Fault(FirstFault(result))
                  ELSE List(result)
         ELSE StringArg("[" \o ToString(val.n) \o " items of " \o val.s \o "]")

\* SafeFormatter.structToSafeMap of a Node: the Next field unless it is nil
structToSafeMap(val, lenOK, stack) ==
    IF isZeroValue(val.heap[val.n]) THEN SafeMap(0)
    ELSE LET next == makeArgSafe(PtrArg(val.heap[val.n], val.heap), lenOK, stack - 1)
         IN  IF next.kind = "fault" THEN next ELSE SafeMap(1)

\* SafeFormatter.makeComplexArgSafe
makeComplexArgSafe(arg, lenOK, stack) ==
    CASE arg.kind = "ptr" ->
            IF arg.n = 0 THEN Nil
            ELSE makeArgSafe(StructArg(arg.n, arg.heap), lenOK, stack - 1)
      [] arg.kind = "map" -> mapToSafeString(arg, lenOK)
      [] arg.kind = "struct" -> structToSafeMap(arg, lenOK, stack - 1)
      [] arg.kind = "slice" -> sliceToSafe(arg, lenOK, stack - 1)

\* SafeFormatter.makeArgSafe; stack: the calls the goroutine stack still holds
makeArgSafe(arg, lenOK, stack) ==
    IF stack <= 0 THEN Fault("stack overflow")
    ELSE CASE arg.kind = "nil" -> Nil
           [] arg.kind \in {"string", "int"} -> arg
           [] arg.kind = "error" ->
                IF arg.b THEN Fault("nil pointer dereference") ELSE StringArg(arg.s)
           [] OTHER -> makeComplexArgSafe(arg, lenOK, stack - 1)

RECURSIVE Render(_, _)
RECURSIVE RenderAll(_)
\* fmt: the elements of a list under %v, separated by spaces
RenderAll(elems) ==
    IF elems = << >> THEN ""
    ELSE IF Len(elems) = 1 THEN Render("%v", elems[1])
    ELSE Render("%v", elems[1]) \o " " \o RenderAll(Tail(elems))

\* fmt: one operand under one verb
Render(verb, v) ==
    CASE v.kind = "nil" -> IF verb = "%v" THEN "<nil>" ELSE "%!(<nil>)"
      [] v.kind = "string" -> IF verb = "%d" THEN "%!d(string)" ELSE v.s
      [] v.kind = "int" -> IF verb = "%s" THEN "%!s(int=7)" ELSE "7"
      [] v.kind = "safemap" ->
            IF verb = "%v" THEN (IF v.n = 0 THEN "map[]" ELSE "map[Next:map[]]")
            ELSE "%!(map[string]interface {})"
      [] v.kind = "map" ->
            IF verb = "%v" THEN "map[" \o MapKeys(v) \o "]"
            ELSE "%!(" \o v.s \o ")"
      [] v.kind = "error" -> IF v.b THEN "<nil>" ELSE v.s
      [] v.kind = "ptr" -> IF v.n = 0 THEN "<nil>" ELSE "&{0xc000010000}"
      [] v.kind \in {"list", "slice"} ->
            IF verb = "%v" THEN "[" \o RenderAll(v.heap) \o "]"
            ELSE "%!(" \o v.s \o ")"

RECURSIVE Sprintf(_, _)
\* fmt.Sprintf(format, args...): verbs take the operands in order
Sprintf(format, args) ==
    IF format = << >>
    THEN IF args = << >> THEN << >> ELSE << "%!(EXTRA)" >>
    ELSE IF Head(format) \in Verbs
         THEN IF args = << >>
              THEN << "%!(MISSING)" >> \o Sprintf(Tail(format), args)
              ELSE << Render(Head(format), Head(args)) >>
                        \o Sprintf(Tail(format), Tail(args))
         ELSE << Head(format) >> \o Sprintf(Tail(format), args)

\* SafeFormatter.FormatSafely / SafeFormat
FormatSafely(format, args, lenOK) ==
    IF Len(args) = 0 THEN [out |-> format, fault |-> "none"]
    ELSE LET safeArgs == [k \in DOMAIN args |-> makeArgSafe(args[k], lenOK, StackLimit)]
         IN  IF FirstFault(safeArgs) # "none"
             THEN [out |-> << >>, fault |-> FirstFault(safeArgs)]
             ELSE [out |-> Sprintf(format, safeArgs), fault |-> "none"]

\* formatToStringBuilder: fmt on the arguments as they are; iterOK: no write
\* to a map fell into fmt's iteration over it
formatToStringBuilder(format, args, iterOK) ==
    IF ~iterOK /\ \E k \in DOMAIN args : args[k].kind = "map" /\ args[k].b
    THEN [out |-> << >>, fault |-> "concurrent map iteration and map write"]
    ELSE IF \A k \in DOMAIN format : format[k] \notin Verbs
         THEN [out |-> format \o [k \in DOMAIN args |-> Render("%v", args[k])],
               fault |-> "none"]
         ELSE [out |-> Sprintf(format, args), fault |-> "none"]

shouldUseSafeFormatCopiesAsync(isAsync) == isAsync

\* shouldUseSafeFormat(isAsync)
shouldUseSafeFormat(isAsync) ==
    CASE globalSafetyMode = SafetyModeAlways -> TRUE
      [] globalSafetyMode = SafetyModeNever -> FALSE
      [] globalSafetyMode = SafetyModeDefault -> isAsync
      [] OTHER -> isAsync

\* formatMessage(msg, args, isAsync)
formatMessage(msg, args, isAsync, clash) ==
    IF Len(args) = 0 THEN [via |-> "msg", out |-> msg, fault |-> "none", use |-> FALSE]
    ELSE IF shouldUseSafeFormat(isAsync)
         THEN [via |-> "SafeFormat", use |-> TRUE] @@ FormatSafely(msg, args, ~clash)
         ELSE [via |-> "formatToStringBuilder", use |-> FALSE]
                @@ formatToStringBuilder(msg, args, ~clash)

\* SetLogSafetyMode(mode)
SetLogSafetyMode(mode) ==
    /\ globalSafetyMode' = mode
    /\ UNCHANGED << levelVars, loggerVars, lockVars, asyncVars, th, ops, inits,
                    fault, histVars, routeVars, fmtIn, fmtOut, timeVars, failed >>
    /\ UNCHANGED extraVars

\* a direct call of shouldUseSafeFormat(isAsync)
CallShouldUseSafeFormat(isAsync) ==
    /\ fmtIn' = [NoCall EXCEPT !.op = "shouldUseSafeFormat", !.isAsync = isAsync,
                               !.mode = globalSafetyMode]
    /\ fmtOut' = [NoResult EXCEPT !.use = shouldUseSafeFormat(isAsync)]
    /\ UNCHANGED << levelVars, loggerVars, lockVars, asyncVars, th, ops, inits,
                    fault, histVars, routeVars, globalSafetyMode, timeVars, failed >>
    /\ UNCHANGED extraVars

\* zapDebug .. zapError in synchronous mode: formatMessage(msg, args, false);
\* clash: a concurrent write hits the call's access to a busy map
SyncFormat(msg, args, clash) ==
    /\ fmtIn' = [op |-> "sync", msg |-> msg, args |-> args, isAsync |-> FALSE,
                 mode |-> globalSafetyMode, clash |-> clash]
    /\ fmtOut' = formatMessage(msg, args, FALSE, clash)
    /\ UNCHANGED << levelVars, loggerVars, lockVars, asyncVars, th, ops, inits,
                    fault, histVars, routeVars, globalSafetyMode, timeVars, failed >>
    /\ UNCHANGED extraVars

\* logAsyncWithSkip: formattedMsg := SafeFormat(msg, args...)
AsyncFormat(msg, args, clash) ==
    /\ fmtIn' = [op |-> "async", msg |-> msg, args |-> args, isAsync |-> TRUE,
                 mode |-> globalSafetyMode, clash |-> clash]
    /\ fmtOut' = [via |-> IF Len(args) = 0 THEN "msg" ELSE "SafeFormat", use |-> TRUE]
                    @@ FormatSafely(msg, args, ~clash)
    /\ UNCHANGED << levelVars, loggerVars, lockVars, asyncVars, th, ops, inits,
                    fault, histVars, routeVars, globalSafetyMode, timeVars, failed >>
    /\ UNCHANGED extraVars

NextFormat ==
    \/ \E mode \in Modes : SetLogSafetyMode(mode)
    \/ \E isAsync \in BOOLEAN : CallShouldUseSafeFormat(isAsync)
    \/ \E msg \in Formats : \E args \in ArgLists : \E clash \in BOOLEAN :
            SyncFormat(msg, args, clash)
    \/ \E msg \in Formats : \E args \in ArgLists : \E clash \in BOOLEAN :
            AsyncFormat(msg, args, clash)

SpecFormat == Init /\ [][NextFormat]_vars

\* a string of pieces is the empty string
IsEmptyString(out) == \A k \in DOMAIN out : out[k] = ""

\* C15: SafeFormat with a non-empty format string returns a non-empty string
\* and does not fault, whatever the argument.
C15_SafeFormatNeverFaults ==
    (fmtOut.via = "SafeFormat" /\ ~IsEmptyString(fmtIn.msg))
        => (fmtOut.fault = "none" /\ ~IsEmptyString(fmtOut.out))
\* the safe form of a map of type T with n entries (n < 0: nil); clash: the
\* reading of the count faulted
MapForm(T, n, clash) ==
    IF n < 0 THEN "nil"
    ELSE IF clash THEN T \o "{concurrent}"
    ELSE IF n = 0 THEN T \o "{}"
    ELSE T \o "{len=" \o ToString(n) \o "}"

SafeElems(val, lenOK) ==
    [i \in 1..val.n |-> makeArgSafe(val.heap[i], lenOK, StackLimit)]

\* C31: the safe form of a slice argument is nil for the nil slice, a new list
\* of the safe forms of its elements in order when it has at most ten
\* elements (none of which faults), and the text "[n items of T]" otherwise.
C31_SliceSafeForm ==
    (fmtOut.via = "SafeFormat" /\ fmtIn.args # << >>)
        => \A k \in DOMAIN fmtIn.args :
            LET val == fmtIn.args[k]
                safe == makeArgSafe(val, ~fmtIn.clash, StackLimit)
            IN  val.kind = "slice"
                => IF val.b THEN safe = Nil
                   ELSE IF val.n > 10
                        THEN safe = StringArg("[" \o ToString(val.n) \o " items of "
                                              \o val.s \o "]")
                        ELSE \/ FirstFault(SafeElems(val, ~fmtIn.clash)) # "none"
                             \/ /\ safe.kind = "list"
                                /\ safe.heap = SafeElems(val, ~fmtIn.clash)

\* C31 witness: a slice of ten elements has been copied, or one of eleven
\* summarised, or a slice holding a map turned into a list
C31_Witness ==
    /\ fmtOut.via = "SafeFormat"
    /\ fmtIn.msg = << "%v" >>
    /\ Len(fmtIn.args) = 1
    /\ fmtIn.args[1].kind = "slice"
    /\ \/ fmtIn.args[1].n = 10 /\ fmtOut.out = << "[7 7 7 7 7 7 7 7 7 7]" >>
       \/ fmtIn.args[1].n = 11 /\ fmtOut.out = << "[11 items of int]" >>
       \/ fmtIn.args[1].n = 3
            /\ fmtOut.out \in { << "[x map[string]int{len=1} <nil>]" >>,
                                 << "[x map[string]int{concurrent} <nil>]" >> }
\* C26: makeArgSafe returns a value for every argument of a call; its
\* recursion ends before the goroutine stack does, also for a pointer to a
\* struct whose pointer field leads back to the struct.
C26_MakeArgSafeTerminates ==
    fmtOut.via = "SafeFormat"
        => \A k \in DOMAIN fmtIn.args :
                makeArgSafe(fmtIn.args[k], TRUE, StackLimit) # Fault("stack overflow")
\* what the safety modes prescribe for a call
Prescribed(mode, isAsync) ==
    IF mode = SafetyModeAlways THEN TRUE
    ELSE IF mode = SafetyModeNever THEN FALSE
    ELSE isAsync

\* C16: shouldUseSafeFormat(isAsync) is true for both values of isAsync in
\* SafetyModeAlways, false for both in SafetyModeNever, and isAsync in
\* SafetyModeDefault and under every other mode value.
C16_ShouldUseSafeFormat ==
    fmtIn.op = "shouldUseSafeFormat"
        => fmtOut.use = Prescribed(fmtIn.mode, fmtIn.isAsync)

\* C16 witness: the call has been made in SafetyModeNever for an asynchronous
\* caller and has answered false
C16_Witness ==
    /\ fmtIn.op = "shouldUseSafeFormat"
    /\ fmtIn.mode = SafetyModeNever /\ fmtIn.isAsync /\ ~fmtOut.use

\* C17: a log call with positional arguments formats them with SafeFormat
\* exactly when shouldUseSafeFormat(isAsync) says so under the mode in force,
\* on the synchronous and on the asynchronous path.
C17_FormattingFollowsMode ==
    (fmtIn.op \in {"sync", "async"} /\ fmtIn.args # << >>)
        => ((fmtOut.via = "SafeFormat") <=> Prescribed(fmtIn.mode, fmtIn.isAsync))
(***************************************************************************)
(* The time of a record: logAsyncWithSkip captures time.Now() and the      *)
(* caller, the worker writes the entry on one of two paths.                *)
(***************************************************************************)
\* the latest reading of the clock
MaxClock == 2

\* time passes
Tick ==
    /\ fault = "none"
    /\ now < MaxClock
    /\ now' = now + 1
    /\ UNCHANGED << levelVars, loggerVars, lockVars, asyncVars, th, ops, inits,
                    fault, histVars, routeVars, formatVars, stamped, failed >>
    /\ UNCHANGED extraVars

\* AsyncLogger.logAsyncWithSkip(level, msg, args, skip): callerOK is the ok of
\* runtime.Caller(adjustedSkip)
\* the log calls made: a format and its arguments
EntryCalls ==
    { << << "done" >>, << >> >>,
      << << "%v" >>, << MapArg(1, TRUE) >> >>,
      << << "%v" >>, << ErrorArg(TRUE) >> >> }

AsyncLogEntryRaw(id, level, msg, args, lenOK, callerOK, timestamp) ==
    [id |-> id, lvl |-> level, Message |-> msg, Extras |-> args,
     Caller |-> callerOK, Timestamp |-> timestamp]

\* formattedMsg := SafeFormat(msg, args...); entry := AsyncLogEntry{...}
AsyncLogEntry(id, level, msg, args, lenOK, callerOK, timestamp) ==
    [id |-> id, lvl |-> level, Message |-> FormatSafely(msg, args, lenOK).out,
     Extras |-> << >>, Caller |-> callerOK, Timestamp |-> timestamp]

\* AsyncLogger.logAsyncWithSkip(level, msg, args, skip): callerOK is the ok of
\* runtime.Caller(adjustedSkip), lenOK: no concurrent write hit the reading of
\* a map argument's length; a panic inside SafeFormat ends the process
logAsyncWithSkip(t, level, msg, args, lenOK, callerOK) ==
    /\ CanStart(t)
    /\ globalAsyncLogger # NoLogger
    /\ LET g == globalAsyncLogger
           entry == AsyncLogEntry(ops + 1, level, msg, args, lenOK, callerOK, now)
           enabled == isLevelEnabled(levelCache[g], level)
           formatted == FormatSafely(msg, args, lenOK)
       IN  /\ dropOnFull[g] \/ Len(logChan[g]) < chanCap[g] \/ done[g]
           /\ IF enabled
              THEN /\ fmtIn' = [op |-> "async", msg |-> msg, args |-> args,
                                isAsync |-> TRUE, mode |-> globalSafetyMode,
                                clash |-> ~lenOK]
                   /\ fmtOut' = [via |-> IF Len(args) = 0 THEN "msg" ELSE "SafeFormat",
                                 use |-> TRUE] @@ formatted
              ELSE UNCHANGED << fmtIn, fmtOut >>
           /\ IF enabled /\ formatted.fault # "none"
              THEN Panic(formatted.fault) /\ UNCHANGED << logChan, accepted, dropped >>
              ELSE /\ UNCHANGED fault
                   /\ IF enabled /\ Len(logChan[g]) < chanCap[g]
                      THEN Enqueue(g, entry) /\ UNCHANGED dropped
                      ELSE /\ UNCHANGED << logChan, accepted >>
                           /\ dropped' = IF enabled /\ dropOnFull[g]
                                         THEN dropped \cup {ops + 1} ELSE dropped
    /\ ops' = ops + 1
    /\ UNCHANGED << levelVars, loggerVars, lockVars, globalAsyncLogger, chanCap,
                    done, dropOnFull, levelCache, wpc, wcur, th, inits,
                    sink, processed, handed, routeVars, globalSafetyMode, timeVars,
                    failed >>
    /\ UNCHANGED extraVars

\* what a core writes: the Time of the zapcore.Entry it was given
Stamp(entry, time) ==
    [id |-> entry.id, Message |-> entry.Message, Caller |-> entry.Caller,
     Timestamp |-> entry.Timestamp, Time |-> time]

\* the worker takes an entry: processLogEntry, the entry has a caller
writeLogEntryWithCaller(g) ==
    /\ fault = "none"
    /\ wpc[g] = "select"
    /\ logChan[g] # << >>
    /\ Dequeue(logChan[g]).Caller
    /\ logChan' = [logChan EXCEPT ![g] = Rest(@)]
    /\ processed' = [processed EXCEPT ![g] = Append(@, Dequeue(logChan[g]).id)]
    /\ IF getLogger /\ Check(Dequeue(logChan[g]).lvl) # {}
       THEN stamped' = stamped \cup
                {Stamp(Dequeue(logChan[g]), Dequeue(logChan[g]).Timestamp)}
       ELSE UNCHANGED stamped
    /\ UNCHANGED << levelVars, loggerVars, lockVars, globalAsyncLogger, chanCap,
                    done, dropOnFull, levelCache, wpc, wcur, th, ops, inits, fault,
                    sink, accepted, handed, dropped, routeVars, formatVars, now, failed >>
    /\ UNCHANGED extraVars

\* the worker takes an entry: processLogEntry, the entry has no caller;
\* logger.Debug(..) etc. make the zapcore.Entry with the clock's time
writeLogEntryFallback(g) ==
    /\ fault = "none"
    /\ wpc[g] = "select"
    /\ logChan[g] # << >>
    /\ ~Dequeue(logChan[g]).Caller
    /\ logChan' = [logChan EXCEPT ![g] = Rest(@)]
    /\ processed' = [processed EXCEPT ![g] = Append(@, Dequeue(logChan[g]).id)]
    /\ IF getLogger /\ Check(Dequeue(logChan[g]).lvl) # {}
       THEN stamped' = stamped \cup {Stamp(Dequeue(logChan[g]), now)}
       ELSE UNCHANGED stamped
    /\ UNCHANGED << levelVars, loggerVars, lockVars, globalAsyncLogger, chanCap,
                    done, dropOnFull, levelCache, wpc, wcur, th, ops, inits, fault,
                    sink, accepted, handed, dropped, routeVars, formatVars, now, failed >>
    /\ UNCHANGED extraVars

NextTime ==
    \/ Tick
    \/ \E t \in Threads : \E level \in LogLevels : \E call \in EntryCalls :
        \E lenOK \in BOOLEAN : \E callerOK \in BOOLEAN :
            logAsyncWithSkip(t, level, call[1], call[2], lenOK, callerOK)
    \/ \E g \in Gens : writeLogEntryWithCaller(g)
    \/ \E g \in Gens : writeLogEntryFallback(g)

SpecTime == InitRunning /\ [][NextTime]_vars

\* the entry the latest send put in the queue of pipeline g
LastSent(g) == logChan[g][Len(logChan[g])]

\* C22: every entry in the queue has no raw arguments (Extras is empty), the
\* Message of an entry that is sent is the text SafeFormat made of the call's
\* format and arguments in the submit call, and the record the worker writes
\* carries the Message of the entry it took, unchanged.
C22_EntriesSelfContained ==
    [][/\ \A g \in Gens : \A k \in DOMAIN logChan'[g] : logChan'[g][k].Extras = << >>
       /\ \A g \in Gens :
            (Len(logChan'[g]) > Len(logChan[g]) /\ fmtIn'.op = "async")
                => \E lenOK \in BOOLEAN :
                     /\ FormatSafely(fmtIn'.msg, fmtIn'.args, lenOK).fault = "none"
                     /\ LastSent(g)'.Message
                            = FormatSafely(fmtIn'.msg, fmtIn'.args, lenOK).out
       /\ \A r \in stamped' \ stamped :
            \E g \in Gens : /\ logChan[g] # << >>
                             /\ r.id = Dequeue(logChan[g]).id
                             /\ r.Message = Dequeue(logChan[g]).Message]_vars

\* C22 witness: a call with a map argument has put an entry in the queue whose
\* Message is the formatted text, not the format, and the worker has written
\* a record of another such call
C22_Witness ==
    \E g \in Gens :
        /\ logChan[g] # << >>
        /\ fmtIn.op = "async" /\ fmtIn.args # << >>
        /\ LastSent(g).id = ops
        /\ LastSent(g).Message = fmtOut.out
        /\ LastSent(g).Message # fmtIn.msg
        /\ \E r \in stamped : r.Message # << "done" >>

\* C14: the time in every record the worker wrote is the timestamp captured
\* in the submit call, whether the entry has a caller or not.
C14_RecordHasSubmitTime ==
    \A r \in stamped : r.Time = r.Timestamp
(***************************************************************************)
(* The entry points that write through the logger themselves: Lock,        *)
(* Critical, Disaster, SetStopFlag.                                        *)
(***************************************************************************)
\* Lock writes at Info, Critical at Warn, Disaster at Error
DirectLevels == {InfoLevel, WarnLevel, ErrorLevel}

\* Lock / Critical / Disaster (msg): getLogger, then logger.Info / Warn / Error
DirectLog(t, level) ==
    /\ CanStart(t)
    /\ ops' = ops + 1
    /\ IF getLogger
       THEN /\ handed' = handed \cup {ops + 1}
            /\ IF Check(level) # {}
               THEN th' = [th EXCEPT ![t] = [IdleThread EXCEPT
                              !.pc = "write", !.e = [id |-> ops + 1, lvl |-> level],
                              !.thr = Level, !.cores = Check(level)]]
               ELSE UNCHANGED th
       ELSE /\ th' = [th EXCEPT ![t] = [IdleThread EXCEPT
                          !.pc = "exitgame", !.e = [id |-> ops + 1, lvl |-> level]]]
            /\ UNCHANGED handed
    /\ UNCHANGED << levelVars, loggerVars, lockVars, asyncVars, inits, fault,
                    sink, accepted, processed, dropped >>
    /\ UNCHANGED << routeVars, formatVars, timeVars, failed, extraVars >>

\* SetStopFlag(): logger.Info("[SetStopFlag] start") when loggerPtr is set
SetStopFlag(t) ==
    /\ CanStart(t)
    /\ ops' = ops + 1
    /\ IF loggerPtr # 0 /\ Check(InfoLevel) # {}
       THEN th' = [th EXCEPT ![t] = [IdleThread EXCEPT
                      !.pc = "write", !.e = [id |-> ops + 1, lvl |-> InfoLevel],
                      !.thr = Level, !.cores = Check(InfoLevel), !.after = "stop"]]
       ELSE th' = [th EXCEPT ![t] = [IdleThread EXCEPT !.pc = "stop"]]
    /\ UNCHANGED << levelVars, loggerVars, lockVars, asyncVars, inits, fault,
                    histVars >>
    /\ UNCHANGED << routeVars, formatVars, timeVars, failed, extraVars >>

\* SetStopFlag(): atomic.StoreInt32(&stopFlag, 1)
SetStopFlagStore(t) ==
    /\ At(t, "stop")
    /\ stopFlag' = 1
    /\ Return(t)
    /\ UNCHANGED << levelVars, loggerVars, lockVars, asyncVars, ops, inits, fault,
                    histVars >>
    /\ UNCHANGED << routeVars, formatVars, timeVars, failed, skipCache, skipSize,
                    skipped, checkVars >>

NextDirect ==
    \/ NextRunning
    \/ \E t \in Threads : \E level \in DirectLevels : DirectLog(t, level)
    \/ \E t \in Threads : SetStopFlag(t)
    \/ \E t \in Threads : SetStopFlagStore(t)

SpecDirect == InitRunning /\ [][NextDirect]_vars

\* C21: while async mode is enabled (an async logger is installed) no calling
\* thread writes to a sink.
C21_OnlyWorkerWritesInAsyncMode ==
    [][\A t \in Threads : Write(t) => globalAsyncLogger = NoLogger]_vars
\* C28: on one call chain ExitGame is called at most once.
C28_ExitGameNotReentered == \A t \in Threads : th[t].exits <= 1
(***************************************************************************)
(* The worker goroutines of the global pipeline.                           *)
(***************************************************************************)
\* the async loggers whose processLogs goroutine runs
LiveWorkers == { g \in Gens : wpc[g] \notin {"none", "exited"} }

\* C23: at most one worker goroutine is live at any time, and when InitialZap
\* puts a new async logger in place of an old one the old one's worker has
\* exited (Close has returned) and the new one's worker is the only live one.
C23_OneLiveWorker ==
    /\ [](Cardinality(LiveWorkers) <= 1)
    /\ [][(globalAsyncLogger # NoLogger /\ globalAsyncLogger' # NoLogger
            /\ globalAsyncLogger' # globalAsyncLogger)
          => /\ wpc[globalAsyncLogger] = "exited"
             /\ done[globalAsyncLogger]
             /\ LiveWorkers' = {globalAsyncLogger'}]_vars

\* C23 witness: a second InitialZap has replaced the async logger; the first
\* worker has exited and the second one runs
C23_Witness ==
    /\ inits = 2
    /\ globalAsyncLogger = 2
    /\ wpc[1] = "exited"
    /\ LiveWorkers = {2}
(***************************************************************************)
(* OptimizedSkipCache and detectAndAdjustSkip.  A cache maps the return    *)
(* address of a call site to a skip depth.                                 *)
(***************************************************************************)
\* the capacity newAsyncLogger gives the logger's cache
SkipCacheSize == 1000

\* the capacity of the cache a caller makes
MaxSkipSize == 1

\* the skip the global debugAsync .. errorAsync pass to logAsyncWithSkip
BaseSkip == 3

\* OptimizedSkipCache.maxSize
maxSize(c) == IF c = "logger" THEN SkipCacheSize ELSE MaxSkipSize

\* the keys given to the caller's cache
PCs == 1..(MaxSkipSize + 1)

\* the return address in debugAsync .. errorAsync, which runtime.Caller(2)
\* gives detectAndAdjustSkip: one per level, the same for Debug and DebugW
CallSite(level) == level

\* detectSkipSlow(skip); wrapper: a zapDebug .. zapError frame is on the stack
detectSkipSlow(skip, wrapper) == IF wrapper THEN skip + 1 ELSE skip

\* what the steps of the skip cache leave alone
skipFrame ==
    << levelVars, loggerVars, lockVars, asyncVars, inits, fault, histVars,
       routeVars, formatVars, timeVars, failed, stopFlag, checkVars >>

\* Set returns; a call of detectAndAdjustSkip returns its adjustedSkip
SetReturn(t) ==
    /\ Return(t)
    /\ skipped' = IF th[t].e.call
                  THEN skipped \cup {[pc |-> th[t].e.pc, own |-> th[t].e.skip,
                                       got |-> th[t].e.skip, hit |-> FALSE]}
                  ELSE skipped

\* Debug(..) (wrapper) or DebugW(..) (no wrapper) etc. in async mode:
\* detectAndAdjustSkip(3) asks the cache, and on a miss scans the stack
detectAndAdjustSkip(t, level, wrapper) ==
    /\ CanStart(t)
    /\ globalAsyncLogger # NoLogger
    /\ ops' = ops + 1
    /\ LET pc == CallSite(level)
           own == detectSkipSlow(BaseSkip, wrapper)
       IN  IF pc \in DOMAIN skipCache["logger"]
           THEN /\ skipped' = skipped \cup {[pc |-> pc, own |-> own,
                                               got |-> skipCache["logger"][pc],
                                               hit |-> TRUE]}
                /\ UNCHANGED th
           ELSE /\ th' = [th EXCEPT ![t] = [IdleThread EXCEPT
                            !.pc = "set_check",
                            !.e = [cache |-> "logger", pc |-> pc, skip |-> own,
                                   call |-> TRUE]]]
                /\ UNCHANGED skipped
    /\ UNCHANGED << skipFrame, skipCache, skipSize >>

\* a caller's OptimizedSkipCache.Set(pc, skip)
Set(t, pc, skip) ==
    /\ CanStart(t)
    /\ ops' = ops + 1
    /\ th' = [th EXCEPT ![t] = [IdleThread EXCEPT
                !.pc = "set_check",
                !.e = [cache |-> "own", pc |-> pc, skip |-> skip, call |-> FALSE]]]
    /\ UNCHANGED << skipFrame, skipCache, skipSize, skipped >>

\* Set: atomic.LoadInt64(&c.size) < c.maxSize
SetCheck(t) ==
    /\ At(t, "set_check")
    /\ IF skipSize[th[t].e.cache] < maxSize(th[t].e.cache)
       THEN Goto(t, "set_store") /\ UNCHANGED skipped
       ELSE SetReturn(t)
    /\ UNCHANGED << skipFrame, ops, skipCache, skipSize >>

\* Set: c.cache.LoadOrStore(pc, skip)
SetStore(t) ==
    /\ At(t, "set_store")
    /\ LET c == th[t].e.cache IN
       IF th[t].e.pc \in DOMAIN skipCache[c]
       THEN SetReturn(t) /\ UNCHANGED skipCache
       ELSE /\ skipCache' = [skipCache EXCEPT ![c] = (th[t].e.pc :> th[t].e.skip) @@ @]
            /\ Goto(t, "set_add")
            /\ UNCHANGED skipped
    /\ UNCHANGED << skipFrame, ops, skipSize >>

\* Set: atomic.AddInt64(&c.size, 1)
SetAdd(t) ==
    /\ At(t, "set_add")
    /\ skipSize' = [skipSize EXCEPT ![th[t].e.cache] = @ + 1]
    /\ SetReturn(t)
    /\ UNCHANGED << skipFrame, ops, skipCache >>

NextSkip ==
    \/ \E t \in Threads : \E level \in LogLevels : \E wrapper \in BOOLEAN :
            detectAndAdjustSkip(t, level, wrapper)
    \/ \E t \in Threads : \E pc \in PCs : \E skip \in {BaseSkip, BaseSkip + 1} :
            Set(t, pc, skip)
    \/ \E t \in Threads : SetCheck(t)
    \/ \E t \in Threads : SetStore(t)
    \/ \E t \in Threads : SetAdd(t)

SpecSkip == InitRunning /\ [][NextSkip]_vars

\* C24: a skip cache never holds more entries than its capacity maxSize.
C24_SkipCacheBounded ==
    \A c \in Caches : Cardinality(DOMAIN skipCache[c]) <= maxSize(c)

\* C25: the skip depth detectAndAdjustSkip returns for a call is the depth
\* detectSkipSlow computes for that call's own stack, from the cache or not.
C25_SkipIsOwnDepth ==
    \A r \in skipped : r.got = r.own
(***************************************************************************)
(* The level gate of the async logger: the LevelCache made by              *)
(* newAsyncLogger, and UpdateLevel.                                        *)
(***************************************************************************)
\* InitialZap with an async configuration has returned and no call is in
\* progress; again: it was the second InitialZap of the process, the first
\* one synchronous, so that NewLevelCache found a logger (initialized was 1)
InitLevel ==
    \E c \in { k \in Configs : k.async } : \E again \in BOOLEAN :
        /\ atomicLevel = << IF ParseOK(c.level) THEN ParseLevel(c.level) ELSE InfoLevel >>
        /\ debugEnabledCache = boolToInt32(atomicLevel[1] <= DebugLevel)
        /\ infoEnabledCache = boolToInt32(atomicLevel[1] <= InfoLevel)
        /\ warnEnabledCache = boolToInt32(atomicLevel[1] <= WarnLevel)
        /\ errorEnabledCache = boolToInt32(atomicLevel[1] <= ErrorLevel)
        /\ initialized = 1
        /\ inits = IF again THEN 2 ELSE 1
        /\ loggerPtr = inits
        /\ zapCores = Levels
        /\ globalMutex = NoThread
        /\ asyncMutex = NoThread
        /\ globalAsyncLogger = 1
        /\ logChan = [g \in Gens |-> << >>]
        /\ chanCap = [g \in Gens |-> IF g = 1 THEN BufferSize(c.size) ELSE 0]
        /\ done = [g \in Gens |-> FALSE]
        /\ dropOnFull = [g \in Gens |-> g = 1 /\ c.drop]
        /\ levelCache = [g \in Gens |-> IF g = 1 /\ again
                                        THEN updateCache(DefaultLevelCache)
                                        ELSE DefaultLevelCache]
        /\ wpc = [g \in Gens |-> IF g = 1 THEN "select" ELSE "none"]
        /\ wcur = [g \in Gens |-> NoWork]
        /\ th = [t \in Threads |-> IdleThread]
        /\ ops = 0
        /\ fault = "none"
        /\ sink = << >>
        /\ accepted = [g \in Gens |-> << >>]
        /\ processed = [g \in Gens |-> << >>]
        /\ handed = {}
        /\ dropped = {}
        /\ NoRoutes
        /\ NoFormat
        /\ NoTime
        /\ NoExtras

\* the steps of UpdateLevel and of the log calls in async mode
LevelStep(t) ==
    \/ UpdateLevelConfig(t) \/ UpdateLevelSet(t) \/ UpdateLevelNotice(t)
    \/ UpdateLevelRead(t) \/ UpdateLevelStore(t)
    \/ ZapLog(t) \/ AsyncLog(t) \/ SendOrDrop(t) \/ SendOrDone(t) \/ Write(t)

NextLevel ==
    \/ \E t \in Threads : \E name \in LevelInputs : UpdateLevel(t, name)
    \/ \E t \in Threads : \E level \in LogLevels : Log(t, level)
    \/ \E t \in Threads : LevelStep(t)
    \/ \E g \in Gens : WorkerRecv(g) \/ WorkerProcess(g) \/ WorkerWrite(g)

SpecLevel == InitLevel /\ [][NextLevel]_vars

\* C27: with no UpdateLevel or InitialZap call in progress, a log call in
\* async mode at a level at or above the threshold passes the level gate of
\* logAsyncWithSkip and goes on to send its entry.
C27_LevelCacheFollowsThreshold ==
    [][\A t \in Threads :
        (/\ AsyncLog(t)
         /\ globalAsyncLogger # NoLogger
         /\ LevelQuiescent
         /\ Level <= th[t].e.lvl)
        => th'[t].pc = "send"]_vars
(***************************************************************************)
(* The level InitialZap starts with: its logLevel argument, or the Level   *)
(* of the configuration when the argument is empty.                        *)
(***************************************************************************)
\* the logLevel arguments: a level name or the empty string
LogLevelArgs == LevelInputs \cup {""}

finalLevelFromConfig(logLevel, zc) == zc.level

\* InitialZap: finalLevel := zapConfig.Level; if logLevel != "" it is logLevel
finalLevel(logLevel, zc) == IF logLevel # "" THEN logLevel ELSE zc.level

\* InitialZap(name, id, logLevel, zc); zapConfig.Level becomes the final level
InitialZapWith(t, logLevel, zc) ==
    InitialZap(t, [zc EXCEPT !.level = finalLevel(logLevel, zc)])

\* the steps of InitialZap, Close and the log calls
InitStep(t) ==
    \/ InitialZapReadLevel(t) \/ InitialZapLogger(t) \/ InitialZapAsync(t)
    \/ InitialZapReplace(t) \/ InitialZapDone(t)
    \/ CloseWaited(t) \/ CloseLogger(t) \/ CloseDone(t)
    \/ ZapLog(t) \/ SyncLog(t) \/ ExitGame(t) \/ Disaster(t) \/ AsyncLog(t)
    \/ FallbackW(t) \/ SendOrDrop(t) \/ SendOrDone(t) \/ Write(t)

\* InitialZap, Close and log calls, with no UpdateLevel
NextInit ==
    \/ \E t \in Threads : \E logLevel \in LogLevelArgs : \E zc \in Configs :
            InitialZapWith(t, logLevel, zc)
    \/ \E t \in Threads : Close(t)
    \/ \E t \in Threads : \E level \in LogLevels : Log(t, level)
    \/ \E t \in Threads : InitStep(t)
    \/ \E g \in Gens : WorkerStep(g)

SpecInit == Init /\ [][NextInit]_vars

\* the threshold a level name stands for: Info when it does not parse
ThresholdOf(name) == IF ParseOK(name) THEN ParseLevel(name) ELSE InfoLevel

\* C29: InitialZap works with logLevel when it is not empty and with the
\* Level of the configuration otherwise, and when it returns the threshold is
\* the parsed value of that name, Info when the name does not parse, the four
\* fast-path flags are those of this threshold and initialized is 1.
C29_InitialZapSetsLevel ==
    [][\A t \in Threads :
        /\ \A logLevel \in LogLevelArgs : \A zc \in Configs :
                InitialZapWith(t, logLevel, zc)
                    => th'[t].cfg.level = (IF logLevel = "" THEN zc.level ELSE logLevel)
        /\ InitialZapDone(t)
                => /\ atomicLevel' = << ThresholdOf(th[t].cfg.level) >>
                   /\ debugEnabledCache'
                        = boolToInt32(ThresholdOf(th[t].cfg.level) <= DebugLevel)
                   /\ infoEnabledCache'
                        = boolToInt32(ThresholdOf(th[t].cfg.level) <= InfoLevel)
                   /\ warnEnabledCache'
                        = boolToInt32(ThresholdOf(th[t].cfg.level) <= WarnLevel)
                   /\ errorEnabledCache'
                        = boolToInt32(ThresholdOf(th[t].cfg.level) <= ErrorLevel)
                   /\ initialized' = 1]_vars

\* C29 witness: an InitialZap whose level name does not parse has returned:
\* the threshold is Info, the flags are those of Info, initialized is set
C29_Witness ==
    /\ inits > 0
    /\ \A t \in Threads : th[t].pc = "idle"
    /\ initialized = 1
    /\ atomicLevel = << InfoLevel >>
    /\ FlagsMatch(InfoLevel)
(***************************************************************************)
(* CheckLevel(logLevel): zapCheckLevel looks the name up in the map        *)
(* levelCache, parses it on a miss and stores it, and then compares the    *)
(* current level of atomicLevel with it.  It is called in every state of   *)
(* the life cycle, next to InitialZap, UpdateLevel and Close.              *)
(***************************************************************************)
\* the names CheckLevel is called with: "WARN" parses and is not declared in
\* the map, "bogus" does not parse
CheckInputs == {"debug", "error", "WARN", "bogus"}

\* the synchronous configurations
SyncConfigs == { c \in Configs : ~c.async }

\* a comparison that holds for the levels at or below the threshold
AtOrBelow(currentLevel, checkLevel) == currentLevel >= checkLevel

\* zapCheckLevel: return currentLevel <= checkLevel
AtOrAbove(currentLevel, checkLevel) == currentLevel <= checkLevel

\* zapCheckLevel: levelCache[logLevel]; on a miss zapcore.ParseLevel, whose
\* error returns false, and levelCache[logLevel] = parsedLevel
CheckLevel(t, logLevel) ==
    /\ CanStart(t)
    /\ ops' = ops + 1
    /\ IF logLevel \in DOMAIN levelByName
       THEN /\ th' = [th EXCEPT ![t] = [IdleThread EXCEPT
                        !.pc = "ck_level", !.name = logLevel,
                        !.cur = levelByName[logLevel]]]
            /\ UNCHANGED checkVars
       ELSE IF ~ParseOK(logLevel)
            THEN /\ checked' = [name |-> logLevel, ok |-> FALSE]
                 /\ UNCHANGED << th, levelByName >>
            ELSE /\ levelByName' = (logLevel :> ParseLevel(logLevel)) @@ levelByName
                 /\ th' = [th EXCEPT ![t] = [IdleThread EXCEPT
                             !.pc = "ck_level", !.name = logLevel,
                             !.cur = ParseLevel(logLevel)]]
                 /\ UNCHANGED checked
    /\ UNCHANGED << levelVars, loggerVars, lockVars, asyncVars, inits, fault,
                    histVars, routeVars, formatVars, timeVars, failed >>
    /\ UNCHANGED << stopFlag, skipCache, skipSize, skipped >>

\* zapCheckLevel: currentLevel := atomicLevel.Level(); the result is returned
zapCheckLevelCompare(t) ==
    /\ At(t, "ck_level")
    /\ IF atomicLevel = << >>
       THEN Panic("nil pointer dereference") /\ UNCHANGED << th, checked >>
       ELSE /\ checked' = [name |-> th[t].name, ok |-> AtOrAbove(Level, th[t].cur)]
            /\ Return(t)
            /\ UNCHANGED fault
    /\ UNCHANGED << levelVars, loggerVars, lockVars, asyncVars, ops, inits,
                    histVars, routeVars, formatVars, timeVars, failed >>
    /\ UNCHANGED << stopFlag, skipCache, skipSize, skipped, levelByName >>

CheckStep(t) ==
    \/ InitialZapReadLevel(t) \/ InitialZapLogger(t) \/ InitialZapDone(t)
    \/ CloseLogger(t) \/ CloseDone(t)
    \/ UpdateLevelConfig(t) \/ UpdateLevelSet(t) \/ UpdateLevelNotice(t)
    \/ UpdateLevelRead(t) \/ UpdateLevelStore(t) \/ Write(t)
    \/ zapCheckLevelCompare(t)

\* InitialZap with a synchronous configuration, UpdateLevel, CheckLevel, Close
NextCheck ==
    \/ \E t \in Threads : \E c \in SyncConfigs : InitialZap(t, c)
    \/ \E t \in Threads : Close(t)
    \/ \E t \in Threads : \E name \in LevelInputs : UpdateLevel(t, name)
    \/ \E t \in Threads : \E logLevel \in CheckInputs : CheckLevel(t, logLevel)
    \/ \E t \in Threads : CheckStep(t)

SpecCheck == Init /\ [][NextCheck]_vars

\* C39: a CheckLevel call whose comparison runs with atomicLevel allocated
\* returns true exactly when the level the name parses to is at or above the
\* threshold of that moment; a call with a name that does not parse returns
\* false and does not fault; no step of CheckLevel changes the threshold or the
\* fast-path flags.
C39_CheckLevelResult ==
    [][\A t \in Threads :
        /\ (zapCheckLevelCompare(t) /\ atomicLevel # << >>)
              => /\ checked'.name = th[t].name
                 /\ checked'.ok = (ParseLevel(th[t].name) >= Level)
                 /\ UNCHANGED levelVars
        /\ \A logLevel \in CheckInputs :
              CheckLevel(t, logLevel)
                => /\ UNCHANGED << levelVars, fault >>
                   /\ ~ParseOK(logLevel)
                        => /\ checked' = [name |-> logLevel, ok |-> FALSE]
                           /\ th'[t].pc = "idle"]_vars

\* C39 witness: with the threshold at Error, CheckLevel("WARN"), a name that
\* parses and was not in the map, has returned false
C39_Witness ==
    /\ atomicLevel = << ErrorLevel >>
    /\ checked = [name |-> "WARN", ok |-> FALSE]
    /\ "WARN" \in DOMAIN levelByName

\* C40 as stated: in every state of the life cycle, the step of UpdateLevel
\* that sets the level and the step of CheckLevel that reads it, in a call
\* with a level name that parses, do not fault.
C40_LevelCallsNeverFault ==
    [][\A t \in Threads :
        ((UpdateLevelSet(t) \/ zapCheckLevelCompare(t)) /\ ParseOK(th[t].name))
            => fault' = "none"]_vars

====
